---- MODULE Spec2Model ----
(***************************************************************************)
(* Model of the tempo-cli attribution detector (internal/detector) and of  *)
(* the operations around it.  Strings that the code inspects byte by byte  *)
(* (git output, file paths) are sequences of byte values, so that          *)
(* strings.TrimSpace, strings.Split and sort.Strings are computed as the   *)
(* code computes them.  Identifiers the code only compares for equality    *)
(* (tool ids, methods, model names) are TLA+ strings.                      *)
(***************************************************************************)
EXTENDS Integers, Sequences, FiniteSets, TLC

VARIABLES
    pc,                 \* position inside Detect
    call,               \* number of the running Detect invocation
    world,              \* the pinned environment of repeated calls, or NoWorld
    diffs,              \* the (out, err) pairs gitOutput returned for the diffs
    lookups,            \* the (out, err) pairs of the rev-parse/log/remote calls
    committedFiles,     \* Detect's local committedFiles
    commitMsg,          \* Detect's local commitMsg
    attr,               \* Detect's local attr (the Attribution being built)
    fileMatchDetected,  \* Detect's local fileMatchDetected (as a set)
    session,            \* what the session reader of the last step returned
    readersRun,         \* the session readers that have been queried
    procs,              \* what detectProcesses returned
    trailers,           \* what detectTrailers returned
    ret,                \* what Detect returned: [attr, err]
    returned,           \* the return values of the finished invocations
    now,                \* time.Now() of a session reader's call, in ticks
    maxAge,             \* the maxAge a session reader is called with, in ticks
    probe,              \* the last reader call: its name, input and result
    repo,               \* the hook files and the .gitignore of the repository
    hookLog,            \* the Install/Uninstall calls made, each with the files it found
    pending,            \* the directory .tempo/pending: its entries and their data
    savers,             \* the running SavePending calls
    syncer,             \* the running Sync call
    pendingCount        \* what the last PendingCount call counted

detVars == <<pc, call, world, diffs, lookups, committedFiles, commitMsg, attr,
             fileMatchDetected, session, readersRun, procs, trailers, ret,
             returned>>

probeVars == <<now, maxAge, probe>>

fsVars == <<repo, hookLog>>

cfgVars == <<pending, savers, syncer, pendingCount>>

vars == <<detVars, probeVars, fsVars, cfgVars>>

\* what the actions of Detect leave alone, and what the readers leave alone
nonDetVars == <<probeVars, fsVars, cfgVars>>
nonProbeVars == <<detVars, fsVars, cfgVars>>

----------------------------------------------------------------------------
(* Bytes and strings                                                       *)

\* the byte values the model names
Ch == [nl |-> 10, sp |-> 32, colon |-> 58, slash |-> 47,
       a |-> 97, b |-> 98, c |-> 99, s |-> 115, e |-> 101, dot |-> 46]

\* unicode.IsSpace for the one-byte characters
IsSpace(c) == c \in {9, 10, 11, 12, 13, 32}

RECURSIVE TrimLeft(_)
TrimLeft(s) ==
    IF s = <<>> THEN <<>>
    ELSE IF IsSpace(Head(s)) THEN TrimLeft(Tail(s)) ELSE s

RECURSIVE TrimRight(_)
TrimRight(s) ==
    IF s = <<>> THEN <<>>
    ELSE IF IsSpace(s[Len(s)]) THEN TrimRight(SubSeq(s, 1, Len(s) - 1)) ELSE s

\* strings.TrimSpace
TrimSpace(s) == TrimRight(TrimLeft(s))

\* index of the first newline of s, 0 when there is none
RECURSIVE IndexNL(_, _)
IndexNL(s, i) ==
    IF i > Len(s) THEN 0
    ELSE IF s[i] = Ch.nl THEN i ELSE IndexNL(s, i + 1)

\* strings.Split(s, "\n"): always at least one piece
RECURSIVE SplitLines(_)
SplitLines(s) ==
    LET i == IndexNL(s, 1) IN
    IF i = 0 THEN <<s>>
    ELSE <<SubSeq(s, 1, i - 1)>> \o SplitLines(SubSeq(s, i + 1, Len(s)))

\* byte-wise s < t, the order of sort.Strings
RECURSIVE StrLess(_, _)
StrLess(s, t) ==
    IF t = <<>> THEN FALSE
    ELSE IF s = <<>> THEN TRUE
    ELSE IF Head(s) # Head(t) THEN Head(s) < Head(t)
    ELSE StrLess(Tail(s), Tail(t))

\* all byte strings over alphabet of length at most n
Texts(alphabet, n) == UNION {[1..k -> alphabet] : k \in 0..n}

----------------------------------------------------------------------------
(* git                                                                     *)

\* gitOutput returns the captured standard output and the error together
GitResult(out, err) == [out |-> out, err |-> err]

GitFailed == GitResult(<<>>, TRUE)

\* the loop of getCommittedFiles over the lines of the diff output
RECURSIVE NonBlankTrimmed(_)
NonBlankTrimmed(lines) ==
    IF lines = <<>> THEN <<>>
    ELSE LET f == TrimSpace(Head(lines)) IN
         IF f # <<>> THEN <<f>> \o NonBlankTrimmed(Tail(lines))
         ELSE NonBlankTrimmed(Tail(lines))

\* a fallback that gives up after the first diff, kept for comparison
getCommittedFilesNoFallback(d1, d2) ==
    IF d1.err THEN [files |-> <<>>, err |-> TRUE]
    ELSE [files |-> NonBlankTrimmed(SplitLines(TrimSpace(d1.out))), err |-> FALSE]

\* getCommittedFiles: d1 is the diff against HEAD~1, d2 the diff against the
\* empty tree (run only when d1 failed)
getCommittedFiles(d1, d2) ==
    LET first == d1 IN
    IF first.err
    THEN IF d2.err
         THEN [files |-> <<>>, err |-> TRUE]
         ELSE [files |-> NonBlankTrimmed(SplitLines(TrimSpace(d2.out))),
               err |-> FALSE]
    ELSE [files |-> NonBlankTrimmed(SplitLines(TrimSpace(first.out))),
          err |-> FALSE]

----------------------------------------------------------------------------
(* Types of the detector package                                           *)

ConfidenceHigh == "high"
ConfidenceMedium == "medium"

MethodFileMatch == "file-match"
MethodProcess == "process"
MethodCoAuthorTrailer == "co-author-trailer"

ToolClaudeCode == "claude-code"
ToolAider == "aider"
ToolCursor == "cursor"
ToolCopilot == "copilot"
ToolCodex == "codex"

Tools == {ToolClaudeCode, ToolAider, ToolCursor, ToolCopilot, ToolCodex}

\* a nil *SessionInfo and a nil *Attribution
NoSession == [nil |-> TRUE]
NoAttribution == [nil |-> TRUE]

SessionInfo(tool, files, model, tokens, dur) ==
    [Tool |-> tool, FilesWritten |-> files, Model |-> model,
     TotalTokens |-> tokens, SessionDurationSec |-> dur]

Detection(tool, confidence, method, matched, committed, ai, model, tokens, dur) ==
    [Tool |-> tool, Confidence |-> confidence, Method |-> method,
     FilesMatched |-> matched, FilesCommitted |-> committed, AIFiles |-> ai,
     Model |-> model, TokenUsage |-> tokens, SessionDurationSec |-> dur]

\* what a session reader returns: (*SessionInfo, error)
ReaderResult(s, err) == [session |-> s, err |-> err]

----------------------------------------------------------------------------
(* Helpers of Detect                                                       *)

\* the orders in which a range over a Go map with key set S may visit it
RECURSIVE Enumerations(_)
Enumerations(S) ==
    IF S = {} THEN {<<>>}
    ELSE UNION {{<<x>> \o rest : rest \in Enumerations(S \ {x})} : x \in S}

ToSetOfSeq(seq) == {seq[i] : i \in DOMAIN seq}

toSet(slice) == ToSetOfSeq(slice)

RECURSIVE InsertSorted(_, _)
InsertSorted(x, sorted) ==
    IF sorted = <<>> THEN <<x>>
    ELSE IF StrLess(Head(sorted), x)
         THEN <<Head(sorted)>> \o InsertSorted(x, Tail(sorted))
         ELSE <<x>> \o sorted

\* sort.Strings
RECURSIVE SortStrings(_)
SortStrings(seq) ==
    IF seq = <<>> THEN <<>>
    ELSE InsertSorted(Head(seq), SortStrings(Tail(seq)))

RECURSIVE FilterIn(_, _)
FilterIn(seq, set) ==
    IF seq = <<>> THEN <<>>
    ELSE IF Head(seq) \in set THEN <<Head(seq)>> \o FilterIn(Tail(seq), set)
         ELSE FilterIn(Tail(seq), set)

\* intersect without the final sort
intersectUnsorted(visit, committedSet) == FilterIn(visit, committedSet)

\* intersect(aiFiles, committedFiles); visit is the order in which the range
\* over aiFiles visits its keys
intersect(visit, committedSet) == SortStrings(FilterIn(visit, committedSet))

HasPrefix(s, p) == Len(s) >= Len(p) /\ SubSeq(s, 1, Len(p)) = p
HasSuffix(s, p) == Len(s) >= Len(p) /\ SubSeq(s, Len(s) - Len(p) + 1, Len(s)) = p
TrimPrefix(s, p) == IF HasPrefix(s, p) THEN SubSeq(s, Len(p) + 1, Len(s)) ELSE s
TrimSuffix(s, p) == IF HasSuffix(s, p) THEN SubSeq(s, 1, Len(s) - Len(p)) ELSE s

RECURSIVE IndexByte(_, _, _)
IndexByte(s, c, i) ==
    IF i > Len(s) THEN 0
    ELSE IF s[i] = c THEN i ELSE IndexByte(s, c, i + 1)

\* strings.Replace(s, old, new, 1) for one-byte old and new
ReplaceFirst(s, old, new) ==
    LET i == IndexByte(s, old, 1) IN
    IF i = 0 THEN s ELSE [s EXCEPT ![i] = new]

Colon == Ch.colon
Slash == Ch.slash
StrGitAt == <<103, 105, 116, 64>>
StrHttps == <<104, 116, 116, 112, 115, 58, 47, 47>>
StrHttp == <<104, 116, 116, 112, 58, 47, 47>>
StrDotGit == <<46, 103, 105, 116>>

parseRemoteURL(remote) ==
    LET r1 == IF HasPrefix(remote, StrGitAt)
              THEN ReplaceFirst(TrimPrefix(remote, StrGitAt), Colon, Slash)
              ELSE remote
        r2 == TrimPrefix(TrimPrefix(r1, StrHttps), StrHttp)
        i == IndexByte(r2, Slash, 1)
    IN IF i = 0 THEN <<>>
       ELSE TrimSuffix(SubSeq(r2, i + 1, Len(r2)), StrDotGit)

\* parseRepoFromRemote; res is what gitOutput returned for the remote lookup
parseRepoFromRemote(res) ==
    IF res.err THEN <<>> ELSE parseRemoteURL(TrimSpace(res.out))

----------------------------------------------------------------------------
(* Process detection, trailers, Cursor model                               *)

\* processNames: executable name -> tool
processNames ==
    [n \in {"claude", "Cursor", "cursor", "copilot-agent", "github-copilot",
            "aider", "codex"} |->
        CASE n = "claude" -> ToolClaudeCode
          [] n \in {"Cursor", "cursor"} -> ToolCursor
          [] n \in {"copilot-agent", "github-copilot"} -> ToolCopilot
          [] n = "aider" -> ToolAider
          [] OTHER -> ToolCodex]

RECURSIVE processLoopAllNames(_, _, _, _)
\* a loop that does not consult seen
processLoopAllNames(visit, running, seen, detected) ==
    IF visit = <<>> THEN detected
    ELSE IF Head(visit) \in running
         THEN processLoopAllNames(Tail(visit), running, seen,
                                  Append(detected, processNames[Head(visit)]))
         ELSE processLoopAllNames(Tail(visit), running, seen, detected)

\* the loop of detectProcesses: visit is the order in which the range over
\* processNames visits the names, running the names pgrep -x finds
RECURSIVE processLoop(_, _, _, _)
processLoop(visit, running, seen, detected) ==
    IF visit = <<>> THEN detected
    ELSE LET name == Head(visit)
             tool == processNames[name]
         IN IF tool \in seen
            THEN processLoop(Tail(visit), running, seen, detected)
            ELSE IF name \in running
                 THEN processLoop(Tail(visit), running, seen \cup {tool},
                                  Append(detected, tool))
                 ELSE processLoop(Tail(visit), running, seen, detected)

detectProcesses(goos, visit, running) ==
    IF goos = "windows" THEN <<>>
    ELSE processLoop(visit, running, {}, <<>>)

\* The visiting orders of processNames explored for a set of running names.
\* A name that is not running changes neither seen nor detected wherever it
\* is visited, so the running names are enumerated in every relative order
\* and the others are visited after them.
VisitOrders(running) ==
    LET table == <<"claude", "Cursor", "cursor", "copilot-agent",
                   "github-copilot", "aider", "codex">>
        rest == SelectSeq(table, LAMBDA n : n \notin running)
    IN {f \o rest : f \in Enumerations(running)}

\* The trailer parser is not part of the sources at hand.  The commit
\* message is the sequence of identities of its co-authorship lines; an
\* identity the name table knows yields one medium-confidence Detection,
\* any other is skipped.
RECURSIVE detectTrailers(_)
detectTrailers(msg) ==
    IF msg = <<>> THEN <<>>
    ELSE IF Head(msg) \in DOMAIN processNames
         THEN <<Detection(processNames[Head(msg)], ConfidenceMedium,
                          MethodCoAuthorTrailer, <<>>, 0, 0, "", 0, 0)>>
              \o detectTrailers(Tail(msg))
         ELSE detectTrailers(Tail(msg))

\* parseCursorComposerModel: the values it may return for a composer whose
\* usageData map has the keys usageKeys and whose modelConfig.modelName is
\* configName ("" when absent).  The range over the map returns at the first
\* non-empty key it visits.
parseCursorComposerModel(usageKeys, configName) ==
    IF usageKeys \ {""} # {}
    THEN usageKeys \ {""}
    ELSE IF configName # "" /\ configName # "default" THEN {configName} ELSE {""}

----------------------------------------------------------------------------
(* Detect, one action per stage.  Every action takes the inputs it reads   *)
(* from a family F of possible environments: F.diff1 is the set of results *)
(* the first git diff may have, F.claude the set of results the Claude     *)
(* Code reader may return, and so on.                                      *)

\* the second diff when the first one succeeded
NotRun == [notRun |-> TRUE]

Returned(a, e) == [attr |-> a, err |-> e]
NotReturned == [pending |-> TRUE]

\* lines 32-38: committed files, the two early returns
GetCommittedFilesStep(F) ==
    /\ pc = "start"
    /\ \E d1 \in F.diff1 :
       \E d2 \in (IF d1.err THEN F.diff2 ELSE {NotRun}) :
          LET r == getCommittedFiles(d1, d2) IN
          /\ diffs' = <<d1, d2>>
          /\ committedFiles' = r.files
          /\ IF r.err
             THEN ret' = Returned(NoAttribution, TRUE) /\ pc' = "done"
             ELSE IF Len(r.files) = 0
                  THEN ret' = Returned(NoAttribution, FALSE) /\ pc' = "done"
                  ELSE ret' = ret /\ pc' = "lookups"
    /\ UNCHANGED <<nonDetVars, call, world, lookups, commitMsg, attr, fileMatchDetected,
                   session, readersRun, procs, trailers, returned>>

\* lines 40-53: the four lookups whose errors are dropped, and attr.
\* time.Now() is the number of the invocation: a later call, a later time.
LookupsStep(F) ==
    /\ pc = "lookups"
    /\ \E sha \in F.revParse, author \in F.logAuthor,
          msg \in F.logMsg, remote \in F.remote :
          /\ lookups' = [revParse |-> sha, logAuthor |-> author,
                         logMsg |-> msg, remote |-> remote]
          /\ commitMsg' = msg.out
          /\ attr' = [CommitSHA |-> TrimSpace(sha.out),
                      CommitAuthor |-> TrimSpace(author.out),
                      Repo |-> parseRepoFromRemote(remote),
                      Timestamp |-> call,
                      Detections |-> <<>>]
    /\ fileMatchDetected' = {}
    /\ pc' = "claude"
    /\ UNCHANGED <<nonDetVars, call, world, diffs, committedFiles, session, readersRun,
                   procs, trailers, ret, returned>>

\* the orders in which intersect may visit the files of a reader's result
VisitsOf(r) ==
    IF r.session = NoSession THEN {<<>>} ELSE Enumerations(r.session.FilesWritten)

\* a file-match block that appends its Detection without marking the tool
FileMatchUnmarked(tool, r, matched, model, tokens, dur) ==
    IF ~r.err /\ r.session # NoSession /\ Len(matched) > 0
    THEN [claimed |-> {},
          found |-> <<Detection(tool, ConfidenceHigh, MethodFileMatch, matched,
                                Len(committedFiles), Len(matched),
                                model, tokens, dur)>>]
    ELSE [claimed |-> {}, found |-> <<>>]

\* a file-match block that reports an empty intersection too
FileMatchAlways(tool, r, matched, model, tokens, dur) ==
    IF ~r.err /\ r.session # NoSession
    THEN [claimed |-> {tool},
          found |-> <<Detection(tool, ConfidenceHigh, MethodFileMatch, matched,
                                Len(committedFiles), Len(matched),
                                model, tokens, dur)>>]
    ELSE [claimed |-> {}, found |-> <<>>]

\* a block that reports the number of matched files as files_committed
FileMatchCountsMatched(tool, r, matched, model, tokens, dur) ==
    IF ~r.err /\ r.session # NoSession /\ Len(matched) > 0
    THEN [claimed |-> {tool},
          found |-> <<Detection(tool, ConfidenceHigh, MethodFileMatch, matched,
                                Len(matched), Len(matched),
                                model, tokens, dur)>>]
    ELSE [claimed |-> {}, found |-> <<>>]

\* one file-match block of Detect (lines 59-75, 78-91, 94-110, 113-128,
\* 131-147): the tools it marks in fileMatchDetected and the Detections it
\* appends, given the reader's result r and matched = intersect(...)
FileMatch(tool, r, matched, model, tokens, dur) ==
    IF ~r.err /\ r.session # NoSession /\ Len(matched) > 0
    THEN [claimed |-> {tool},
          found |-> <<Detection(tool, ConfidenceHigh, MethodFileMatch, matched,
                                Len(committedFiles), Len(matched),
                                model, tokens, dur)>>]
    ELSE [claimed |-> {}, found |-> <<>>]

\* the state change shared by the five blocks
ReaderStep(tool, r, block, next) ==
    /\ session' = r
    /\ readersRun' = readersRun \cup {tool}
    /\ fileMatchDetected' = fileMatchDetected \cup block.claimed
    /\ attr' = [attr EXCEPT !.Detections = @ \o block.found]
    /\ pc' = next
    /\ UNCHANGED <<nonDetVars, call, world, diffs, lookups, committedFiles, commitMsg,
                   procs, trailers, ret, returned>>

MatchedOf(r, visit) ==
    IF r.session = NoSession THEN <<>> ELSE intersect(visit, toSet(committedFiles))

ModelOf(r) == IF r.session = NoSession THEN "" ELSE r.session.Model
TokensOf(r) == IF r.session = NoSession THEN 0 ELSE r.session.TotalTokens
DurationOf(r) == IF r.session = NoSession THEN 0 ELSE r.session.SessionDurationSec

\* lines 58-75
ReadClaudeCode(F) ==
    /\ pc = "claude"
    /\ \E r \in F.claude : \E visit \in VisitsOf(r) :
          ReaderStep(ToolClaudeCode, r,
                     FileMatch(ToolClaudeCode, r, MatchedOf(r, visit),
                               ModelOf(r), TokensOf(r), DurationOf(r)),
                     "aider")

\* lines 77-91: the Aider Detection carries no model, tokens or duration
ReadAider(F) ==
    /\ pc = "aider"
    /\ \E r \in F.aider : \E visit \in VisitsOf(r) :
          ReaderStep(ToolAider, r,
                     FileMatch(ToolAider, r, MatchedOf(r, visit), "", 0, 0),
                     "codex")

\* lines 93-110
ReadCodex(F) ==
    /\ pc = "codex"
    /\ \E r \in F.codex : \E visit \in VisitsOf(r) :
          ReaderStep(ToolCodex, r,
                     FileMatch(ToolCodex, r, MatchedOf(r, visit),
                               ModelOf(r), TokensOf(r), DurationOf(r)),
                     "copilot")

\* lines 112-128: the Copilot Detection carries no tokens
ReadCopilot(F) ==
    /\ pc = "copilot"
    /\ \E r \in F.copilot : \E visit \in VisitsOf(r) :
          ReaderStep(ToolCopilot, r,
                     FileMatch(ToolCopilot, r, MatchedOf(r, visit),
                               ModelOf(r), 0, DurationOf(r)),
                     "cursor")

\* what detectCursor returns for a store c: the session parseCursorBubbles
\* built, with the model parseCursorComposerModel picked (model)
detectCursorResult(c, model) ==
    IF c.session = NoSession THEN ReaderResult(NoSession, FALSE)
    ELSE ReaderResult([c.session EXCEPT !.Model = model], FALSE)

\* lines 130-147
ReadCursor(F) ==
    /\ pc = "cursor"
    /\ \E c \in F.cursor :
       \E model \in parseCursorComposerModel(c.usageKeys, c.configName) :
          LET r == detectCursorResult(c, model) IN
          \E visit \in VisitsOf(r) :
             ReaderStep(ToolCursor, r,
                        FileMatch(ToolCursor, r, MatchedOf(r, visit),
                                  ModelOf(r), TokensOf(r), DurationOf(r)),
                        "process")

RECURSIVE ProcessDetectionsAll(_, _, _)
\* a process pass that does not consult fileMatchDetected
ProcessDetectionsAll(list, claimed, n) ==
    IF list = <<>> THEN <<>>
    ELSE <<Detection(Head(list), ConfidenceMedium, MethodProcess, <<>>, n, 0, "", 0, 0)>>
         \o ProcessDetectionsAll(Tail(list), claimed, n)

\* lines 150-159: the Detections the process pass appends
RECURSIVE ProcessDetections(_, _, _)
ProcessDetections(list, claimed, n) ==
    IF list = <<>> THEN <<>>
    ELSE IF Head(list) \notin claimed
         THEN <<Detection(Head(list), ConfidenceMedium, MethodProcess,
                          <<>>, n, 0, "", 0, 0)>>
              \o ProcessDetections(Tail(list), claimed, n)
         ELSE ProcessDetections(Tail(list), claimed, n)

ProcessPass(F) ==
    /\ pc = "process"
    /\ \E running \in F.running, goos \in F.goos :
       \E visit \in VisitOrders(running) :
          LET found == detectProcesses(goos, visit, running) IN
          /\ procs' = found
          /\ attr' = [attr EXCEPT !.Detections =
                        @ \o ProcessDetections(found, fileMatchDetected,
                                               Len(committedFiles))]
    /\ session' = NoSession
    /\ pc' = "trailer"
    /\ UNCHANGED <<nonDetVars, call, world, diffs, lookups, committedFiles, commitMsg,
                   fileMatchDetected, readersRun, trailers, ret, returned>>

DetectedTools(dets) == {dets[i].Tool : i \in DOMAIN dets}

RECURSIVE TrailerDetectionsAll(_, _, _)
\* a trailer pass that does not consult alreadyDetected
TrailerDetectionsAll(list, alreadyDetected, n) ==
    IF list = <<>> THEN <<>>
    ELSE <<[Head(list) EXCEPT !.FilesCommitted = n]>>
         \o TrailerDetectionsAll(Tail(list), alreadyDetected, n)

\* lines 166-171: the Detections the trailer pass appends; alreadyDetected
\* is built once, before the loop (lines 162-165)
RECURSIVE TrailerDetections(_, _, _)
TrailerDetections(list, alreadyDetected, n) ==
    IF list = <<>> THEN <<>>
    ELSE IF Head(list).Tool \notin alreadyDetected
         THEN <<[Head(list) EXCEPT !.FilesCommitted = n]>>
              \o TrailerDetections(Tail(list), alreadyDetected, n)
         ELSE TrailerDetections(Tail(list), alreadyDetected, n)

TrailerPass ==
    /\ pc = "trailer"
    /\ LET found == detectTrailers(commitMsg)
           alreadyDetected == DetectedTools(attr.Detections)
       IN /\ trailers' = found
          /\ attr' = [attr EXCEPT !.Detections =
                        @ \o TrailerDetections(found, alreadyDetected,
                                               Len(committedFiles))]
    /\ pc' = "finalize"
    /\ UNCHANGED <<nonDetVars, call, world, diffs, lookups, committedFiles, commitMsg,
                   fileMatchDetected, session, readersRun, procs, ret, returned>>

\* a finalize that hands out the Attribution whatever it holds
FinalizeResultAny(a) == Returned(a, FALSE)

\* lines 173-177
FinalizeResult(a) ==
    IF Len(a.Detections) = 0 THEN Returned(NoAttribution, FALSE)
    ELSE Returned(a, FALSE)

Finalize ==
    /\ pc = "finalize"
    /\ ret' = FinalizeResult(attr)
    /\ pc' = "done"
    /\ UNCHANGED <<nonDetVars, call, world, diffs, lookups, committedFiles, commitMsg, attr,
                   fileMatchDetected, session, readersRun, procs, trailers,
                   returned>>

DetectNext(F) ==
    \/ GetCommittedFilesStep(F)
    \/ LookupsStep(F)
    \/ ReadClaudeCode(F)
    \/ ReadAider(F)
    \/ ReadCodex(F)
    \/ ReadCopilot(F)
    \/ ReadCursor(F)
    \/ ProcessPass(F)
    \/ TrailerPass
    \/ Finalize

DetectInit ==
    /\ pc = "start"
    /\ call = 1
    /\ diffs = <<>>
    /\ lookups = [none |-> TRUE]
    /\ committedFiles = <<>>
    /\ commitMsg = <<>>
    /\ attr = NoAttribution
    /\ fileMatchDetected = {}
    /\ session = NoSession
    /\ readersRun = {}
    /\ procs = <<>>
    /\ trailers = <<>>
    /\ ret = NotReturned
    /\ returned = <<>>

\* no session reader is being looked at
\* no file of the repository is looked at, no record is being saved or sent
NoFile == [exists |-> FALSE, data |-> <<>>]

NoHooks == [postCommit |-> NoFile, prePush |-> NoFile, gitignore |-> NoFile]

NoPending == [exists |-> FALSE, names |-> <<>>, inodes |-> <<>>]

NoSync == [pc |-> "idle"]

NoCount == [done |-> FALSE]

RepoIdle ==
    /\ repo = NoHooks
    /\ hookLog = <<>>
    /\ pending = NoPending
    /\ savers = <<>>
    /\ syncer = NoSync
    /\ pendingCount = NoCount

ProbeIdle ==
    /\ now = 0
    /\ maxAge = 0
    /\ probe = [reader |-> "none"]

----------------------------------------------------------------------------
(* Environments                                                            *)

NoWorld == [none |-> TRUE]

PathA == <<Ch.a>>
PathB == <<Ch.b>>
PathC == <<Ch.c>>

\* "a\nb\n", "s\n", "e\n", "HEAD\n", "git@h:o/r.git\n"
TextAB == <<Ch.a, Ch.nl, Ch.b, Ch.nl>>
TextSha == <<Ch.s, Ch.nl>>
TextEmail == <<Ch.e, Ch.nl>>
TextHEAD == <<72, 69, 65, 68, Ch.nl>>
TextRemote == StrGitAt \o <<104, Ch.colon, 111, Ch.slash, 114>> \o StrDotGit \o <<Ch.nl>>

Absent == ReaderResult(NoSession, FALSE)
Failed == ReaderResult(NoSession, TRUE)
Wrote(tool, files) == ReaderResult(SessionInfo(tool, files, "m1", 7, 60), FALSE)

MaxTrailers == 2
MaxRunning == 2

\* the identities a co-authorship line may carry
Identities == {"claude", "aider", "cursor", "copilot-agent", "someone"}

Messages == UNION {[1..k -> Identities] : k \in 0..MaxTrailers}

RunningSets == {r \in SUBSET (DOMAIN processNames) : Cardinality(r) <= MaxRunning}

CursorStore(r, keys, config) ==
    [session |-> r.session, usageKeys |-> keys, configName |-> config]

\* The fusion family: one commit of a.go and b.go with every lookup
\* succeeding; each reader finds nothing, fails, or reports a committed or
\* an uncommitted file; any few tools run; the message names any few tools.
FusionReader(tool) == {Absent, Failed, Wrote(tool, {PathA}), Wrote(tool, {PathC})}

Fusion ==
    [diff1 |-> {GitResult(TextAB, FALSE)},
     diff2 |-> {GitFailed},
     revParse |-> {GitResult(TextSha, FALSE)},
     logAuthor |-> {GitResult(TextEmail, FALSE)},
     logMsg |-> {GitResult(m, FALSE) : m \in Messages},
     remote |-> {GitResult(TextRemote, FALSE)},
     claude |-> FusionReader(ToolClaudeCode),
     aider |-> FusionReader(ToolAider),
     codex |-> FusionReader(ToolCodex),
     copilot |-> FusionReader(ToolCopilot),
     cursor |-> {CursorStore(Absent, {}, ""),
                 CursorStore(Wrote(ToolCursor, {PathA}), {"m2"}, ""),
                 CursorStore(Wrote(ToolCursor, {PathC}), {}, "m3")},
     running |-> RunningSets,
     goos |-> {"linux"}]

Init == DetectInit /\ world = NoWorld /\ ProbeIdle /\ RepoIdle

Next == DetectNext(Fusion)

Spec == Init /\ [][Next]_vars

----------------------------------------------------------------------------
(* Further families and their specifications                               *)

\* a reader that built a SessionInfo and returns it with an error, as
\* detectAider does with scanner.Err()
WroteButFailed(tool, files) ==
    ReaderResult(SessionInfo(tool, files, "m1", 7, 60), TRUE)

\* The context family: the diffs and the lookups succeed or fail in every
\* combination; a failed rev-parse has printed nothing or, as git does for
\* an unresolvable HEAD, the word HEAD.
ContextReader(tool) == {Absent, Failed, Wrote(tool, {PathA})}

Context ==
    [diff1 |-> {GitResult(<<>>, FALSE), GitResult(TextAB, FALSE), GitFailed},
     diff2 |-> {GitResult(<<>>, FALSE), GitResult(TextAB, FALSE), GitFailed},
     revParse |-> {GitResult(TextSha, FALSE), GitFailed, GitResult(TextHEAD, TRUE)},
     logAuthor |-> {GitResult(TextEmail, FALSE), GitFailed},
     logMsg |-> {GitResult(<<>>, FALSE), GitResult(<<"claude">>, FALSE), GitFailed},
     remote |-> {GitResult(TextRemote, FALSE), GitFailed},
     claude |-> ContextReader(ToolClaudeCode),
     aider |-> ContextReader(ToolAider) \cup {WroteButFailed(ToolAider, {PathA})},
     codex |-> ContextReader(ToolCodex),
     copilot |-> ContextReader(ToolCopilot),
     cursor |-> {CursorStore(Absent, {}, ""),
                 CursorStore(Wrote(ToolCursor, {PathA}), {}, "default")},
     running |-> {{}, {"aider"}},
     goos |-> {"linux", "windows"}]

NextContext == DetectNext(Context)

SpecContext == Init /\ [][NextContext]_vars

MaxDiffLen == 3
MaxPathLen == 2

\* The match family: the commit lists any files with names over a and b,
\* and the readers report any non-empty set of such names.
MatchPaths == Texts({Ch.a, Ch.b}, MaxPathLen) \ {<<>>}

MatchFileSets == {w \in SUBSET MatchPaths : w # {} /\ Cardinality(w) <= 3}

MatchReader(tool) ==
    {Absent} \cup {Wrote(tool, w) : w \in MatchFileSets}
             \cup {WroteButFailed(tool, {PathA, PathB})}

Match ==
    [diff1 |-> {GitResult(t, FALSE) : t \in Texts({Ch.nl, Ch.a, Ch.b}, MaxDiffLen)},
     diff2 |-> {GitFailed},
     revParse |-> {GitResult(TextSha, FALSE)},
     logAuthor |-> {GitResult(TextEmail, FALSE)},
     logMsg |-> {GitResult(<<>>, FALSE)},
     remote |-> {GitResult(TextRemote, FALSE)},
     claude |-> MatchReader(ToolClaudeCode),
     aider |-> {Absent},
     codex |-> {Absent},
     copilot |-> {Absent},
     cursor |-> {CursorStore(r, {}, "") : r \in {Absent, Wrote(ToolCursor, {PathA, PathB})}},
     running |-> {{}},
     goos |-> {"linux"}]

NextMatch == DetectNext(Match)

SpecMatch == Init /\ [][NextMatch]_vars

MaxOutLen == 4

\* The files family: the two diffs print any short text of names, blanks
\* and newlines, or fail.
DiffResults ==
    {GitFailed} \cup {GitResult(t, FALSE) : t \in Texts({Ch.nl, Ch.sp, Ch.a, Ch.b}, MaxOutLen)}

Files == [diff1 |-> DiffResults, diff2 |-> DiffResults]

NextFiles == GetCommittedFilesStep(Files)

SpecFiles == Init /\ [][NextFiles]_vars

----------------------------------------------------------------------------
(* Properties of the fusion pipeline                                       *)

\* the Detections built so far, and the ones Detect handed out
Building == IF attr = NoAttribution THEN <<>> ELSE attr.Detections

Finished == pc = "done" /\ ret # NotReturned

HandedOut == Finished /\ ret.attr # NoAttribution

IndexesOf(dets, tool) == {i \in DOMAIN dets : dets[i].Tool = tool}

\* C1: whatever the readers, detectProcesses and detectTrailers return
\* (a trailer list may name one tool twice), the Attribution Detect returns
\* holds at most one Detection per tool.
C1_OneDetectionPerTool ==
    HandedOut =>
        \A t \in Tools : Cardinality(IndexesOf(ret.attr.Detections, t)) <= 1

\* C2: a tool with a file-match Detection has no other Detection, in the
\* Attribution being built and in the one returned, whatever the process
\* detector and the trailer parser report.
C2_FileMatchExcludesOthers ==
    \A i, j \in DOMAIN Building :
        (Building[i].Method = MethodFileMatch /\ Building[j].Tool = Building[i].Tool)
            => (i = j)

\* a call in which one tool is file-matched, running and named in a trailer
C2_Witness ==
    /\ HandedOut
    /\ \E t \in Tools :
          /\ \E i \in DOMAIN ret.attr.Detections :
                ret.attr.Detections[i].Tool = t
                /\ ret.attr.Detections[i].Method = MethodFileMatch
          /\ t \in ToSetOfSeq(procs)
          /\ t \in DetectedTools(trailers)

\* C4: the process pass comes before the trailer pass and neither
\* overwrites the other: a tool that no file-match claimed, that is running
\* and that a trailer names has exactly one Detection, of method process,
\* and no trailer Detection precedes a process Detection.
C4_ProcessBeforeTrailer ==
    (pc \in {"finalize", "done"} /\ attr # NoAttribution) =>
        /\ \A t \in Tools :
              (t \notin fileMatchDetected /\ t \in ToSetOfSeq(procs)
                 /\ t \in DetectedTools(trailers))
              => /\ Cardinality(IndexesOf(attr.Detections, t)) = 1
                 /\ \A i \in IndexesOf(attr.Detections, t) :
                       attr.Detections[i].Method = MethodProcess
        /\ \A i, j \in DOMAIN attr.Detections :
              (attr.Detections[i].Method = MethodProcess
                 /\ attr.Detections[j].Method = MethodCoAuthorTrailer) => i < j

\* a finished call with a tool that is unclaimed, running and named twice
C4_Witness ==
    /\ HandedOut
    /\ \E t \in Tools :
          /\ t \notin fileMatchDetected
          /\ t \in ToSetOfSeq(procs)
          /\ Cardinality(IndexesOf(trailers, t)) = 2
          /\ \E u \in Tools \ {t} :
                \E j \in DOMAIN ret.attr.Detections :
                   ret.attr.Detections[j].Tool = u
                   /\ ret.attr.Detections[j].Method = MethodProcess

----------------------------------------------------------------------------
(* Properties of the context stage                                         *)

BothDiffsFailed == Len(diffs) = 2 /\ diffs[1].err /\ diffs[2].err

C6_ReadersAndLookupsNeverAbort ==
    Finished =>
        /\ ret.err <=> BothDiffsFailed
        /\ (~BothDiffsFailed /\ Len(committedFiles) > 0) =>
              /\ readersRun = Tools
              /\ attr.CommitSHA = TrimSpace(lookups.revParse.out)
              /\ attr.CommitAuthor = TrimSpace(lookups.logAuthor.out)
              /\ lookups.remote.err => attr.Repo = <<>>

\* C7: Detect hands out an Attribution only for a non-empty commit with at
\* least one Detection; an empty file list, and zero Detections after the
\* three passes, give absent and no error.
C7_AbsentWhenNothingToReport ==
    Finished =>
        /\ ret.attr # NoAttribution =>
              (Len(committedFiles) > 0 /\ Len(ret.attr.Detections) > 0 /\ ~ret.err)
        /\ (~BothDiffsFailed /\ Len(committedFiles) = 0) =>
              ret = Returned(NoAttribution, FALSE)
        /\ (attr # NoAttribution /\ Len(attr.Detections) = 0) =>
              ret = Returned(NoAttribution, FALSE)
        /\ (attr # NoAttribution /\ Len(attr.Detections) > 0) =>
              ret = Returned(attr, FALSE)

\* a call that ran all three passes over a non-empty commit and found nothing
C7_Witness ==
    /\ Finished
    /\ Len(committedFiles) > 0
    /\ readersRun = Tools
    /\ attr # NoAttribution
    /\ Len(attr.Detections) = 0
    /\ ret = Returned(NoAttribution, FALSE)

----------------------------------------------------------------------------
(* Properties of intersect and of getCommittedFiles                        *)

StrictlyAscending(seq) ==
    \A i \in DOMAIN seq : i < Len(seq) => StrLess(seq[i], seq[i + 1])

\* C3: the matched files of a reader's Detection are exactly the files it
\* wrote that the commit holds, ascending and without duplicates, and a
\* reader gets a file-match Detection only when that set is not empty.
C3_MatchIsSortedIntersection ==
    /\ \A i \in DOMAIN Building :
          Building[i].Method = MethodFileMatch =>
             /\ Building[i].FilesMatched # <<>>
             /\ StrictlyAscending(Building[i].FilesMatched)
             /\ ToSetOfSeq(Building[i].FilesMatched) \subseteq ToSetOfSeq(committedFiles)
    /\ (pc \in {"aider", "codex", "copilot", "cursor", "process"}
          /\ session.session # NoSession) =>
          LET t == session.session.Tool
              both == session.session.FilesWritten \cap ToSetOfSeq(committedFiles)
              mine == IndexesOf(attr.Detections, t)
          IN IF ~session.err /\ both # {}
             THEN /\ Cardinality(mine) = 1
                  /\ \A i \in mine :
                        /\ attr.Detections[i].Method = MethodFileMatch
                        /\ ToSetOfSeq(attr.Detections[i].FilesMatched) = both
                        /\ Len(attr.Detections[i].FilesMatched) = Cardinality(both)
             ELSE mine = {}

\* a reader whose three files meet the commit in two of them
C3_Witness ==
    /\ pc = "aider"
    /\ session.session # NoSession
    /\ Cardinality(session.session.FilesWritten) = 3
    /\ Len(attr.Detections) = 1
    /\ Len(attr.Detections[1].FilesMatched) = 2

\* the lines of a text: the pieces between consecutive newlines
LinesOf(text) ==
    LET breaks == {i \in DOMAIN text : text[i] = Ch.nl}
        before(k) == Cardinality({i \in breaks : i < k})
        line(n) == {k \in DOMAIN text : text[k] # Ch.nl /\ before(k) = n - 1}
    IN [n \in 1..(Cardinality(breaks) + 1) |->
          IF line(n) = {} THEN <<>>
          ELSE LET lo == CHOOSE k \in line(n) : \A m \in line(n) : k <= m
                   hi == CHOOSE k \in line(n) : \A m \in line(n) : k >= m
               IN SubSeq(text, lo, hi)]

\* a line without the white space around it
Stripped(line) ==
    LET ink == {k \in DOMAIN line : ~IsSpace(line[k])} IN
    IF ink = {} THEN <<>>
    ELSE SubSeq(line, CHOOSE k \in ink : \A m \in ink : k <= m,
                      CHOOSE k \in ink : \A m \in ink : k >= m)

NonBlankLines(text) ==
    LET all == [n \in DOMAIN LinesOf(text) |-> Stripped(LinesOf(text)[n])]
    IN SelectSeq(all, LAMBDA l : l # <<>>)

\* C8: when the diff against HEAD~1 fails, the files are those of the diff
\* against the empty tree; there is an error only when that fails too; the
\* list holds every non-blank line of the output, trimmed, and is empty
\* (no error) for an empty output.
C8_CommittedFilesWithFallback ==
    pc # "start" =>
        LET used == IF diffs[1].err THEN diffs[2] ELSE diffs[1] IN
        /\ (Finished /\ ret.err) <=> BothDiffsFailed
        /\ BothDiffsFailed => committedFiles = <<>>
        /\ ~BothDiffsFailed =>
              /\ committedFiles = NonBlankLines(used.out)
              /\ used.out = <<>> => ret = Returned(NoAttribution, FALSE)

\* the first diff failed and the fallback listed two files, one of them
\* printed with white space around it
C8_Witness ==
    /\ pc = "lookups"
    /\ diffs[1].err
    /\ diffs[2] = GitResult(<<Ch.a, Ch.sp, Ch.nl, Ch.b>>, FALSE)
    /\ committedFiles = <<PathA, PathB>>

----------------------------------------------------------------------------
(* Repeated invocations against one unchanged environment                  *)

MaxCalls == 2

\* the caller runs Detect again (the hook of the next commit, or the
\* command run twice): the locals are fresh, the environment is the same
Reinvoke ==
    /\ pc = "done"
    /\ call < MaxCalls
    /\ returned' = Append(returned, ret)
    /\ call' = call + 1
    /\ pc' = "start"
    /\ diffs' = <<>>
    /\ lookups' = [none |-> TRUE]
    /\ committedFiles' = <<>>
    /\ commitMsg' = <<>>
    /\ attr' = NoAttribution
    /\ fileMatchDetected' = {}
    /\ session' = NoSession
    /\ readersRun' = {}
    /\ procs' = <<>>
    /\ trailers' = <<>>
    /\ ret' = NotReturned
    /\ UNCHANGED <<nonDetVars, world>>

\* the family that holds exactly the environment w
Pinned(w) ==
    [diff1 |-> {w.diff1}, diff2 |-> {w.diff2}, revParse |-> {w.revParse},
     logAuthor |-> {w.logAuthor}, logMsg |-> {w.logMsg}, remote |-> {w.remote},
     claude |-> {w.claude}, aider |-> {w.aider}, codex |-> {w.codex},
     copilot |-> {w.copilot}, cursor |-> {w.cursor}, running |-> {w.running},
     goos |-> {w.goos}]

\* one commit of a.go and b.go; Claude Code and Cursor wrote a.go or have no
\* session; the Cursor composer used no, one or two models; any few tools run
RepeatWorlds ==
    {[diff1 |-> GitResult(TextAB, FALSE), diff2 |-> GitFailed,
      revParse |-> GitResult(TextSha, FALSE),
      logAuthor |-> GitResult(TextEmail, FALSE),
      logMsg |-> GitResult(m, FALSE),
      remote |-> GitResult(TextRemote, FALSE),
      claude |-> c, aider |-> Absent, codex |-> Absent, copilot |-> Absent,
      cursor |-> cu, running |-> r, goos |-> "linux"] :
        m \in {<<>>, <<"aider">>},
        c \in {Absent, Wrote(ToolClaudeCode, {PathA})},
        cu \in {CursorStore(Absent, {}, "")}
               \cup {CursorStore(Wrote(ToolCursor, {PathA}), k, "m3") :
                        k \in SUBSET {"m1", "m2"}},
        r \in RunningSets}

InitRepeat == DetectInit /\ world \in RepeatWorlds /\ ProbeIdle /\ RepoIdle

NextRepeat ==
    \/ GetCommittedFilesStep(Pinned(world))
    \/ LookupsStep(Pinned(world))
    \/ ReadClaudeCode(Pinned(world))
    \/ ReadAider(Pinned(world))
    \/ ReadCodex(Pinned(world))
    \/ ReadCopilot(Pinned(world))
    \/ ReadCursor(Pinned(world))
    \/ ProcessPass(Pinned(world))
    \/ TrailerPass
    \/ Finalize
    \/ Reinvoke

SpecRepeat == InitRepeat /\ [][NextRepeat]_vars

SameApartFromTimestamp(r1, r2) ==
    /\ r1.err = r2.err
    /\ (r1.attr = NoAttribution) <=> (r2.attr = NoAttribution)
    /\ r1.attr # NoAttribution =>
          [r1.attr EXCEPT !.Timestamp = 0] = [r2.attr EXCEPT !.Timestamp = 0]

\* C5: two calls of Detect against the same commit, the same session stores
\* and the same running processes return the same Attribution apart from
\* the timestamp: the same Detections, in the same order, with the same
\* model, token and duration values.
C5_RepeatedCallsAgree ==
    Finished => \A i \in DOMAIN returned : SameApartFromTimestamp(returned[i], ret)

-----------------------------------------------------------------------------
(* The session readers: which artifacts are recent enough                  *)

\* Instants and durations are counted in ticks, TicksPerMs of them to the
\* millisecond, so that an instant need not fall on a whole millisecond.
TicksPerMs == 2
\* the latest instant of the clock
Horizon == 6
\* most entries of a directory listing, composers of an index, lines of a
\* history file
MaxEntries == 2
MaxComposers == 2
MaxLines == 2

Times == 0..Horizon
Millis == 0..(Horizon \div TicksPerMs)

\* time.Time{}: the year 1, before every instant of the clock
ZeroTime == 0 - 1

\* t.UnixMilli()
UnixMilli(t) == t \div TicksPerMs

StrJsonl == <<46, 106, 115, 111, 110, 108>>
StrJson == <<46, 106, 115, 111, 110>>
StrAgent == <<97, 103, 101, 110, 116, 45>>
StrHeading == <<35, 35, 35, 35, 32>>

\* what os.ReadDir gives: an error, or the entries sorted by file name; each
\* entry with what IsDir, Info and ModTime give, and the file's content
DirEntry(name, isDir, infoErr, modTime, content) ==
    [name |-> name, isDir |-> isDir, infoErr |-> infoErr,
     modTime |-> modTime, content |-> content]

ReadDir(readErr, entries) == [readErr |-> readErr, entries |-> entries]

RECURSIVE latestLoop(_, _, _, _)
\* claude_code.go lines 68-87: the loop over the entries
latestLoop(entries, cutoff, bestPath, bestModTime) ==
    IF entries = <<>> THEN bestPath
    ELSE LET entry == Head(entries)
             name == entry.name
             rest == Tail(entries)
         IN IF entry.isDir \/ ~HasSuffix(name, StrJsonl)
               THEN latestLoop(rest, cutoff, bestPath, bestModTime)
            ELSE IF HasPrefix(name, StrAgent)
               THEN latestLoop(rest, cutoff, bestPath, bestModTime)
            ELSE IF entry.infoErr
               THEN latestLoop(rest, cutoff, bestPath, bestModTime)
            ELSE IF entry.modTime < cutoff
               THEN latestLoop(rest, cutoff, bestPath, bestModTime)
            ELSE IF entry.modTime > bestModTime
               THEN latestLoop(rest, cutoff, name, entry.modTime)
            ELSE latestLoop(rest, cutoff, bestPath, bestModTime)

\* (path, error); the path is the entry's name, the directory being fixed
findLatestSession(dir, clock, age) ==
    IF dir.readErr THEN [path |-> <<>>, err |-> TRUE]
    ELSE LET cutoff == clock - age
             bestPath == latestLoop(dir.entries, cutoff, <<>>, ZeroTime)
         IN IF bestPath = <<>> THEN [path |-> <<>>, err |-> TRUE]
            ELSE [path |-> bestPath, err |-> FALSE]

Contains(s, c) == \E i \in DOMAIN s : s[i] = c

\* the history file: os.Open and f.Stat may fail, the scanner may fail
HistoryFile(exists, openErr, statErr, modTime, lines, scanErr) ==
    [exists |-> exists, openErr |-> openErr, statErr |-> statErr,
     modTime |-> modTime, lines |-> lines, scanErr |-> scanErr]

\* aider.go lines 38-46
aiderFiles(lines) ==
    {TrimSpace(TrimPrefix(lines[i], StrHeading)) :
        i \in {j \in DOMAIN lines :
                 /\ HasPrefix(lines[j], StrHeading)
                 /\ LET filePath == TrimSpace(TrimPrefix(lines[j], StrHeading))
                    IN filePath # <<>> /\ ~Contains(filePath, Ch.sp)}}

detectAider(f, clock, age) ==
    IF ~f.exists THEN ReaderResult(NoSession, FALSE)
    ELSE IF f.openErr THEN ReaderResult(NoSession, TRUE)
    ELSE IF f.statErr THEN ReaderResult(NoSession, TRUE)
    ELSE IF clock - f.modTime > age THEN ReaderResult(NoSession, FALSE)
    ELSE IF aiderFiles(f.lines) = {} THEN ReaderResult(NoSession, FALSE)
    ELSE ReaderResult(SessionInfo(ToolAider, aiderFiles(f.lines), "", 0, 0),
                      f.scanErr)

RECURSIVE copilotSessionsLoop(_, _)
\* copilot.go lines 145-154
copilotSessionsLoop(entries, cutoff) ==
    IF entries = <<>> THEN <<>>
    ELSE LET entry == Head(entries)
             rest == Tail(entries)
         IN IF entry.isDir \/ ~HasSuffix(entry.name, StrJson)
               THEN copilotSessionsLoop(rest, cutoff)
            ELSE IF entry.infoErr \/ entry.modTime < cutoff
               THEN copilotSessionsLoop(rest, cutoff)
            ELSE <<entry.name>> \o copilotSessionsLoop(rest, cutoff)

\* the paths of the recent session files; never an error
findCopilotSessions(dir, clock, age) ==
    IF dir.readErr THEN <<>>
    ELSE copilotSessionsLoop(dir.entries, clock - age)

\* the workspace database: os.Stat may fail, the query may fail, the row may
\* be missing; the row's value parses as the index object, as the legacy
\* array, or as neither
ComposerHead(id, createdAt, lastUpdatedAt) ==
    [ComposerID |-> id, CreatedAt |-> createdAt, LastUpdatedAt |-> lastUpdatedAt]

WorkspaceDB(exists, queryErr, rows) ==
    [exists |-> exists, queryErr |-> queryErr, rows |-> rows]

RECURSIVE recentComposers(_, _)
\* part_002 lines 247-252
recentComposers(all, cutoff) ==
    IF all = <<>> THEN <<>>
    ELSE LET c == Head(all) IN
         IF c.LastUpdatedAt > cutoff /\ c.ComposerID # ""
         THEN <<c>> \o recentComposers(Tail(all), cutoff)
         ELSE recentComposers(Tail(all), cutoff)

findCursorComposers(db, clock, age) ==
    IF ~db.exists THEN [composers |-> <<>>, err |-> FALSE]
    ELSE IF db.queryErr THEN [composers |-> <<>>, err |-> TRUE]
    ELSE IF db.rows = <<>> THEN [composers |-> <<>>, err |-> FALSE]
    ELSE LET value == db.rows[1] IN
         IF value.format \notin {"object", "array"}
         THEN [composers |-> <<>>, err |-> FALSE]
         ELSE [composers |-> recentComposers(value.composers,
                                             UnixMilli(clock - age)),
               err |-> FALSE]

(* One call of a reader per behaviour: the input it finds and what it
   returns.                                                               *)

Probe(reader, in, out) == [reader |-> reader, in |-> in, out |-> out]

FindLatestSession(F) ==
    /\ probe.reader = "none"
    /\ \E dir \in F.dirs :
          probe' = Probe("findLatestSession", dir, findLatestSession(dir, now, maxAge))
    /\ UNCHANGED <<nonProbeVars, now, maxAge>>

DetectAider(F) ==
    /\ probe.reader = "none"
    /\ \E f \in F.histories :
          probe' = Probe("detectAider", f, detectAider(f, now, maxAge))
    /\ UNCHANGED <<nonProbeVars, now, maxAge>>

FindCopilotSessions(F) ==
    /\ probe.reader = "none"
    /\ \E dir \in F.dirs :
          probe' = Probe("findCopilotSessions", dir, findCopilotSessions(dir, now, maxAge))
    /\ UNCHANGED <<nonProbeVars, now, maxAge>>

FindCursorComposers(F) ==
    /\ probe.reader = "none"
    /\ \E db \in F.dbs :
          probe' = Probe("findCursorComposers", db, findCursorComposers(db, now, maxAge))
    /\ UNCHANGED <<nonProbeVars, now, maxAge>>

(* The artifacts the readers are run against.                             *)

NameA == <<Ch.a>> \o StrJsonl
NameAgent == StrAgent \o <<Ch.c>> \o StrJsonl
NameB == <<Ch.b>> \o StrJsonl
NameC == <<Ch.c>> \o StrJson
NameE == <<Ch.e>> \o StrJson
NameS == <<Ch.s>> \o StrJson

\* in the order of os.ReadDir: sorted by file name
NameTable == <<NameA, NameAgent, NameB, NameC, NameE, NameS>>

NoContent == [none |-> TRUE]

\* a file changed at t, a directory, a file that vanished before Info
EntryKinds ==
    {[isDir |-> FALSE, infoErr |-> FALSE, modTime |-> t] : t \in Times}
    \cup {[isDir |-> TRUE, infoErr |-> FALSE, modTime |-> Horizon],
          [isDir |-> FALSE, infoErr |-> TRUE, modTime |-> Horizon]}

RECURSIVE Ascending(_)
Ascending(S) ==
    IF S = {} THEN <<>>
    ELSE LET m == CHOOSE x \in S : \A y \in S : x <= y
         IN <<m>> \o Ascending(S \ {m})

\* the listing that holds the table's names at the indexes of kindOf
ListingOf(kindOf, contentOf) ==
    LET idx == Ascending(DOMAIN kindOf) IN
    ReadDir(FALSE,
            [i \in 1..Len(idx) |->
                DirEntry(NameTable[idx[i]], kindOf[idx[i]].isDir,
                         kindOf[idx[i]].infoErr, kindOf[idx[i]].modTime,
                         contentOf[idx[i]])])

IndexSets(n) == {S \in SUBSET (1..Len(NameTable)) : Cardinality(S) <= n}

Listings ==
    {ReadDir(TRUE, <<>>)}
    \cup UNION {{ListingOf(kindOf, [i \in S |-> NoContent]) :
                    kindOf \in [S -> EntryKinds]} : S \in IndexSets(MaxEntries)}

LineA == StrHeading \o PathA
LinePadded == StrHeading \o <<Ch.sp>> \o PathB \o <<Ch.sp>>
LineTwoWords == StrHeading \o PathA \o <<Ch.sp>> \o PathB
LineBare == StrHeading
LineProse == PathA \o <<Ch.sp>> \o PathB

HistoryLines == {LineA, LinePadded, LineTwoWords, LineBare, LineProse}

Histories ==
    {HistoryFile(FALSE, FALSE, FALSE, 0, <<>>, FALSE),
     HistoryFile(TRUE, TRUE, FALSE, 0, <<>>, FALSE),
     HistoryFile(TRUE, FALSE, TRUE, 0, <<>>, FALSE)}
    \cup {HistoryFile(TRUE, FALSE, FALSE, t, lines, scanErr) :
            t \in Times,
            lines \in UNION {[1..n -> HistoryLines] : n \in 0..MaxLines},
            scanErr \in BOOLEAN}

ComposerHeads ==
    {ComposerHead(id, 0, u) : id \in {"", "c1", "c2"}, u \in Millis}

ComposerLists == UNION {[1..n -> ComposerHeads] : n \in 0..MaxComposers}

Databases ==
    {WorkspaceDB(FALSE, FALSE, <<>>), WorkspaceDB(TRUE, TRUE, <<>>),
     WorkspaceDB(TRUE, FALSE, <<>>),
     WorkspaceDB(TRUE, FALSE, <<[format |-> "neither", composers |-> <<>>]>>)}
    \cup {WorkspaceDB(TRUE, FALSE, <<[format |-> fmt, composers |-> cs]>>) :
            fmt \in {"object", "array"}, cs \in ComposerLists}

Age == [dirs |-> Listings, histories |-> Histories, dbs |-> Databases]

\* the readers are called at some instant with some positive maxAge
InitAge ==
    /\ DetectInit
    /\ RepoIdle
    /\ world = NoWorld
    /\ now \in (Horizon - 1)..Horizon
    /\ maxAge \in 2..3
    /\ probe = [reader |-> "none"]

NextAge ==
    \/ FindLatestSession(Age)
    \/ DetectAider(Age)
    \/ FindCopilotSessions(Age)
    \/ FindCursorComposers(Age)

SpecAge == InitAge /\ [][NextAge]_vars

\* the instant now - maxAge
Cutoff == now - maxAge

\* the entries findLatestSession is to consider: session files it can stat
ClaudeCandidates ==
    {e \in ToSetOfSeq(probe.in.entries) :
        /\ ~e.isDir /\ ~e.infoErr
        /\ e.name \in {NameA, NameB}}

\* the entries findCopilotSessions is to consider
CopilotCandidates ==
    {e \in ToSetOfSeq(probe.in.entries) :
        /\ ~e.isDir /\ ~e.infoErr
        /\ e.name \in {NameC, NameE, NameS}}

\* findLatestSession, detectAider and findCopilotSessions keep an artifact
\* changed at the cutoff or later and drop one changed before it.
C9_FileReadersKeepTheCutoff ==
    /\ probe.reader = "findLatestSession" =>
          /\ probe.out.err <=> ~\E e \in ClaudeCandidates : e.modTime >= Cutoff
          /\ ~probe.out.err =>
                \E e \in ClaudeCandidates :
                   /\ e.name = probe.out.path
                   /\ e.modTime >= Cutoff
                   /\ \A o \in ClaudeCandidates : o.modTime <= e.modTime
    /\ (probe.reader = "detectAider" /\ probe.in.exists /\ ~probe.in.openErr
          /\ ~probe.in.statErr /\ \E i \in DOMAIN probe.in.lines : probe.in.lines[i] = LineA) =>
          ((probe.out.session # NoSession) <=> (probe.in.modTime >= Cutoff))
    /\ probe.reader = "findCopilotSessions" =>
          ToSetOfSeq(probe.out) =
             {e.name : e \in {c \in CopilotCandidates : c.modTime >= Cutoff}}

\* the composers of the index that carry an id
CursorCandidates ==
    IF probe.in.exists /\ ~probe.in.queryErr /\ probe.in.rows # <<>>
       /\ probe.in.rows[1].format \in {"object", "array"}
    THEN {c \in ToSetOfSeq(probe.in.rows[1].composers) : c.ComposerID # ""}
    ELSE {}

\* C9: every session reader applies the same age rule: an artifact (Claude
\* .jsonl file, Aider history file, Copilot session file, Cursor index
\* entry) changed exactly at now - maxAge is included, and an artifact is
\* excluded only when it is strictly older than that cutoff.
C9_SameAgeRuleEverywhere ==
    /\ C9_FileReadersKeepTheCutoff
    /\ probe.reader = "findCursorComposers" =>
          ToSetOfSeq(probe.out.composers) =
             {c \in CursorCandidates : c.LastUpdatedAt * TicksPerMs >= Cutoff}

\* findCursorComposers keeps exactly the entries updated after the cutoff:
\* an entry updated at the cutoff itself is dropped.
C9_CursorDropsTheCutoff ==
    probe.reader = "findCursorComposers" =>
       ToSetOfSeq(probe.out.composers) =
          {c \in CursorCandidates : c.LastUpdatedAt * TicksPerMs > Cutoff}

-----------------------------------------------------------------------------
(* detectCopilot: the session files of the matching workspace              *)

MaxSessionFiles == 3
MaxRequests == 2
MaxParts == 2

StrRepoRoot == <<Slash, 114>>
StrTextEditGroup == "textEditGroup"

NoURI == [nil |-> TRUE]
RespPart(kind, uri) == [Kind |-> kind, URI |-> uri]
URI(path) == [Path |-> path]
Request(timestamp, modelId, response) ==
    [Timestamp |-> timestamp, ModelID |-> modelId, Response |-> response]

\* a session file: os.ReadFile may fail, json.Unmarshal may fail; family is
\* selectedModel.metadata.family, "" when any of the three is missing
SessionFile(readErr, parses, family, requests) ==
    [readErr |-> readErr, parses |-> parses, family |-> family,
     requests |-> requests]

\* lines 203-215: the files one request's response adds
copilotPartFiles(response, repoRoot) ==
    {TrimPrefix(response[i].URI.Path, repoRoot \o <<Slash>>) :
        i \in {j \in DOMAIN response :
                 /\ response[j].Kind = StrTextEditGroup
                 /\ response[j].URI # NoURI
                 /\ response[j].URI.Path # <<>>
                 /\ TrimPrefix(response[j].URI.Path, repoRoot \o <<Slash>>)
                       # response[j].URI.Path}}

RECURSIVE copilotRequestLoop(_, _, _)
\* lines 186-216: acc holds firstTimestamp, lastTimestamp, info.Model and
\* info.FilesWritten
copilotRequestLoop(requests, repoRoot, acc) ==
    IF requests = <<>> THEN acc
    ELSE LET req == Head(requests)
             first == IF req.Timestamp > 0
                         /\ (acc.first = 0 \/ req.Timestamp < acc.first)
                      THEN req.Timestamp ELSE acc.first
             last == IF req.Timestamp > 0 /\ req.Timestamp > acc.last
                     THEN req.Timestamp ELSE acc.last
             model == IF acc.model = "" /\ req.ModelID # ""
                      THEN req.ModelID ELSE acc.model
         IN copilotRequestLoop(Tail(requests), repoRoot,
               [first |-> first, last |-> last, model |-> model,
                files |-> acc.files \cup copilotPartFiles(req.Response, repoRoot)])

parseCopilotSession(file, repoRoot) ==
    IF file.readErr THEN ReaderResult(NoSession, TRUE)
    ELSE IF ~file.parses THEN ReaderResult(NoSession, FALSE)
    ELSE LET acc == copilotRequestLoop(file.requests, repoRoot,
                       [first |-> 0, last |-> 0, model |-> file.family,
                        files |-> {}])
             dur == IF acc.first > 0 /\ acc.last > 0
                    THEN (acc.last - acc.first) \div 1000 ELSE 0
         IN IF acc.files = {} THEN ReaderResult(NoSession, FALSE)
            ELSE ReaderResult(SessionInfo(ToolCopilot, acc.files, acc.model, 0, dur),
                              FALSE)

\* the content of the file of that name
ReadFile(dir, name) ==
    (CHOOSE e \in ToSetOfSeq(dir.entries) : e.name = name).content

RECURSIVE copilotMergeFailFast(_, _, _, _)
\* a merge that gives up at the first file it cannot use
copilotMergeFailFast(dir, sessions, repoRoot, merged) ==
    IF sessions = <<>> THEN merged
    ELSE LET r == parseCopilotSession(ReadFile(dir, Head(sessions)), repoRoot)
             sess == r.session
         IN IF r.err \/ sess = NoSession
            THEN SessionInfo(ToolCopilot, {}, "", 0, 0)
            ELSE copilotMergeFailFast(dir, Tail(sessions), repoRoot,
                    SessionInfo(ToolCopilot,
                       merged.FilesWritten \cup sess.FilesWritten,
                       IF sess.Model # "" THEN sess.Model ELSE merged.Model,
                       0,
                       IF sess.SessionDurationSec > merged.SessionDurationSec
                       THEN sess.SessionDurationSec
                       ELSE merged.SessionDurationSec))

RECURSIVE copilotMergeFirstModel(_, _, _, _)
\* a merge that keeps the first model it meets and adds the durations up
copilotMergeFirstModel(dir, sessions, repoRoot, merged) ==
    IF sessions = <<>> THEN merged
    ELSE LET r == parseCopilotSession(ReadFile(dir, Head(sessions)), repoRoot)
             sess == r.session
         IN IF r.err \/ sess = NoSession
            THEN copilotMergeFirstModel(dir, Tail(sessions), repoRoot, merged)
            ELSE copilotMergeFirstModel(dir, Tail(sessions), repoRoot,
                    SessionInfo(ToolCopilot,
                       merged.FilesWritten \cup sess.FilesWritten,
                       IF merged.Model # "" THEN merged.Model ELSE sess.Model,
                       0,
                       sess.SessionDurationSec + merged.SessionDurationSec))

RECURSIVE copilotMerge(_, _, _, _)
\* lines 247-261: the loop over the recent session files
copilotMerge(dir, sessions, repoRoot, merged) ==
    IF sessions = <<>> THEN merged
    ELSE LET r == parseCopilotSession(ReadFile(dir, Head(sessions)), repoRoot)
             sess == r.session
         IN IF r.err \/ sess = NoSession
            THEN copilotMerge(dir, Tail(sessions), repoRoot, merged)
            ELSE copilotMerge(dir, Tail(sessions), repoRoot,
                    SessionInfo(ToolCopilot,
                       merged.FilesWritten \cup sess.FilesWritten,
                       IF sess.Model # "" THEN sess.Model ELSE merged.Model,
                       0,
                       IF sess.SessionDurationSec > merged.SessionDurationSec
                       THEN sess.SessionDurationSec
                       ELSE merged.SessionDurationSec))

\* ws: whether findCopilotWorkspace finds the repository's workspace, and
\* the chatSessions directory of that workspace
detectCopilot(ws, repoRoot, clock, age) ==
    IF ~ws.found THEN ReaderResult(NoSession, FALSE)
    ELSE LET sessions == findCopilotSessions(ws.chatSessions, clock, age) IN
         IF sessions = <<>> THEN ReaderResult(NoSession, FALSE)
         ELSE LET merged == copilotMerge(ws.chatSessions, sessions, repoRoot,
                               SessionInfo(ToolCopilot, {}, "", 0, 0))
              IN IF merged.FilesWritten = {} THEN ReaderResult(NoSession, FALSE)
                 ELSE ReaderResult(merged, FALSE)

ParseCopilotSession(F) ==
    /\ probe.reader = "none"
    /\ \E file \in F.files :
          probe' = Probe("parseCopilotSession", file,
                         parseCopilotSession(file, StrRepoRoot))
    /\ UNCHANGED <<nonProbeVars, now, maxAge>>

DetectCopilot(F) ==
    /\ probe.reader = "none"
    /\ \E ws \in F.workspaces :
          probe' = Probe("detectCopilot", ws,
                         detectCopilot(ws, StrRepoRoot, now, maxAge))
    /\ UNCHANGED <<nonProbeVars, now, maxAge>>

(* The session files the reader is run against.                           *)

InRepo(path) == StrRepoRoot \o <<Slash>> \o path

\* under the repository, under another root, under a sibling whose name
\* starts with the repository's, the repository root itself
EditedPaths ==
    {InRepo(PathA), InRepo(PathB), <<Slash, 120, Slash>> \o PathA,
     StrRepoRoot \o <<120, Slash>> \o PathA, <<>>}

RespParts ==
    {RespPart(StrTextEditGroup, URI(p)) : p \in EditedPaths}
    \cup {RespPart(StrTextEditGroup, NoURI),
          RespPart("markdownContent", URI(InRepo(PathC)))}

Requests ==
    {Request(t, m, r) :
        t \in {0, 1000, 3500}, m \in {"", "m2"},
        r \in UNION {[1..n -> RespParts] : n \in 0..MaxParts}}

\* requests that differ in when they were made and which model served them
TimedRequests ==
    {Request(t, m, r) :
        t \in {0, 1000, 3500}, m \in {"", "m2"},
        r \in {<<>>, <<RespPart(StrTextEditGroup, URI(InRepo(PathA)))>>}}

\* single session files, in detail
SessionFiles ==
    {SessionFile(TRUE, FALSE, "", <<>>), SessionFile(FALSE, FALSE, "", <<>>)}
    \cup {SessionFile(FALSE, TRUE, family, <<r>>) :
            family \in {"", "gpt"}, r \in Requests}
    \cup {SessionFile(FALSE, TRUE, family, rs) :
            family \in {"", "gpt"},
            rs \in UNION {[1..n -> TimedRequests] : n \in 0..MaxRequests}}

Edit(path) == RespPart(StrTextEditGroup, URI(InRepo(path)))

\* the session files a workspace is filled with
Unreadable == SessionFile(TRUE, FALSE, "", <<>>)
Malformed == SessionFile(FALSE, FALSE, "", <<>>)
EditsA == SessionFile(FALSE, TRUE, "gpt",
                      <<Request(1000, "", <<Edit(PathA)>>), Request(3500, "", <<>>)>>)
EditsBC == SessionFile(FALSE, TRUE, "",
                       <<Request(1000, "m2", <<Edit(PathB), Edit(PathC)>>)>>)
ChatOnly == SessionFile(FALSE, TRUE, "gpt",
                        <<Request(1000, "", <<RespPart("markdownContent", NoURI)>>)>>)

WorkspaceFiles == {Unreadable, Malformed, EditsA, EditsBC, ChatOnly}

\* a session file changed before, at or after the cutoff; a directory
SessionEntryKinds ==
    {[isDir |-> FALSE, infoErr |-> FALSE, modTime |-> t] :
        t \in (Horizon - 4)..(Horizon - 2)}
    \cup {[isDir |-> TRUE, infoErr |-> FALSE, modTime |-> Horizon]}

\* the .json names of the table
SessionNames == {i \in DOMAIN NameTable : HasSuffix(NameTable[i], StrJson)}

Workspaces ==
    {[found |-> FALSE, chatSessions |-> ReadDir(TRUE, <<>>)],
     [found |-> TRUE, chatSessions |-> ReadDir(TRUE, <<>>)]}
    \cup UNION {{[found |-> TRUE, chatSessions |-> ListingOf(kindOf, contentOf)] :
                    kindOf \in [S -> SessionEntryKinds],
                    contentOf \in [S -> WorkspaceFiles]} :
                S \in {T \in SUBSET SessionNames : Cardinality(T) <= MaxSessionFiles}}

Copilot == [files |-> SessionFiles, workspaces |-> Workspaces]

InitCopilot ==
    /\ DetectInit
    /\ RepoIdle
    /\ world = NoWorld
    /\ now = Horizon
    /\ maxAge = 3
    /\ probe = [reader |-> "none"]

NextCopilot ==
    \/ ParseCopilotSession(Copilot)
    \/ DetectCopilot(Copilot)

SpecCopilot == InitCopilot /\ [][NextCopilot]_vars

\* the session files of the workspace that are within the age cutoff
RecentFiles ==
    IF probe.in.found /\ ~probe.in.chatSessions.readErr
    THEN {e \in ToSetOfSeq(probe.in.chatSessions.entries) :
             /\ ~e.isDir /\ ~e.infoErr /\ e.modTime >= Cutoff
             /\ e.name \in {NameC, NameE, NameS}}
    ELSE {}

\* the repository's files a session file records edits of; none when the
\* file cannot be read or parsed
EditedFiles(file) ==
    IF file.readErr \/ ~file.parses THEN {}
    ELSE {SubSeq(part.URI.Path, Len(StrRepoRoot) + 2, Len(part.URI.Path)) :
            part \in {q \in UNION {ToSetOfSeq(file.requests[i].Response) :
                                      i \in DOMAIN file.requests} :
                        /\ q.Kind = StrTextEditGroup
                        /\ q.URI # NoURI
                        /\ Len(q.URI.Path) >= Len(StrRepoRoot) + 1
                        /\ SubSeq(q.URI.Path, 1, Len(StrRepoRoot) + 1)
                              = StrRepoRoot \o <<Slash>>}}

UnionOfRecent == UNION {EditedFiles(e.content) : e \in RecentFiles}

\* C10: detectCopilot returns the union of the file sets of the parsable
\* session files within the age cutoff; an unreadable or malformed file
\* contributes nothing and never makes the reader return absent or an error
\* while a sibling has files.
C10_MalformedFilesAreIsolated ==
    probe.reader = "detectCopilot" =>
       /\ ~probe.out.err
       /\ UnionOfRecent = {} <=> probe.out.session = NoSession
       /\ UnionOfRecent # {} => probe.out.session.FilesWritten = UnionOfRecent

\* an unreadable file, a malformed file and a valid one, all recent: the
\* valid one's files are returned
C10_Witness ==
    /\ probe.reader = "detectCopilot"
    /\ \E e \in RecentFiles : e.content = Unreadable
    /\ \E e \in RecentFiles : e.content = Malformed
    /\ \E e \in RecentFiles : e.content = EditsBC
    /\ probe.out = ReaderResult(SessionInfo(ToolCopilot, {PathB, PathC}, "m2", 0, 0), FALSE)

-----------------------------------------------------------------------------
(* detectClaudeCode: the latest session log of the repository              *)

\* one line of the log: whether it holds the bytes "assistant" (line 120),
\* whether json.Unmarshal accepts it, and what it decodes to.  Tokens is
\* the sum of the four usage counters.  A timestamp is empty, or a text
\* time.Parse rejects, or an instant in milliseconds
NoStamp == [text |-> FALSE, ok |-> FALSE, t |-> 0]
BadStamp == [text |-> TRUE, ok |-> FALSE, t |-> 0]
Stamp(t) == [text |-> TRUE, ok |-> TRUE, t |-> t]

ContentItem(type, name, filePath) ==
    [Type |-> type, Name |-> name, FilePath |-> filePath]

LogLine(hasKey, parses, type, timestamp, model, tokens, content) ==
    [hasKey |-> hasKey, parses |-> parses, Type |-> type,
     Timestamp |-> timestamp, Model |-> model, Tokens |-> tokens,
     Content |-> content]

\* the log file: os.Open may fail; the scanner stops with an error at a line
\* longer than its buffer, having delivered the lines before it
LogFile(openErr, lines, scanErr) ==
    [openErr |-> openErr, lines |-> lines, scanErr |-> scanErr]

\* claude_code.go lines 158-173: the files one line's content adds
claudeContentFiles(content, repoRoot) ==
    {TrimPrefix(content[i].FilePath, repoRoot \o <<Slash>>) :
        i \in {j \in DOMAIN content :
                 /\ content[j].Type = "tool_use"
                 /\ content[j].Name \in {"Edit", "Write"}
                 /\ content[j].FilePath # <<>>
                 /\ TrimPrefix(content[j].FilePath, repoRoot \o <<Slash>>)
                       # content[j].FilePath}}

RECURSIVE claudeLineLoopFileOrder(_, _, _)
\* the loop with firstTimestamp and lastTimestamp taken in file order
claudeLineLoopFileOrder(lines, repoRoot, acc) ==
    IF lines = <<>> THEN acc
    ELSE LET msg == Head(lines)
             rest == Tail(lines)
         IN IF ~msg.hasKey \/ ~msg.parses \/ msg.Type # "assistant"
            THEN claudeLineLoopFileOrder(rest, repoRoot, acc)
            ELSE LET timed == msg.Timestamp.text /\ msg.Timestamp.ok
                     t == msg.Timestamp.t
                 IN claudeLineLoopFileOrder(rest, repoRoot,
                       [first |-> IF timed /\ acc.first = ZeroTime
                                  THEN t ELSE acc.first,
                        last |-> IF timed THEN t ELSE acc.last,
                        model |-> IF msg.Model # "" THEN msg.Model ELSE acc.model,
                        tokens |-> acc.tokens + msg.Tokens,
                        files |-> acc.files
                                  \cup claudeContentFiles(msg.Content, repoRoot)])

RECURSIVE claudeLineLoop(_, _, _)
\* lines 116-174: acc holds firstTimestamp, lastTimestamp and info
claudeLineLoop(lines, repoRoot, acc) ==
    IF lines = <<>> THEN acc
    ELSE LET msg == Head(lines)
             rest == Tail(lines)
         IN IF ~msg.hasKey THEN claudeLineLoop(rest, repoRoot, acc)
            ELSE IF ~msg.parses THEN claudeLineLoop(rest, repoRoot, acc)
            ELSE IF msg.Type # "assistant" THEN claudeLineLoop(rest, repoRoot, acc)
            ELSE LET timed == msg.Timestamp.text /\ msg.Timestamp.ok
                     t == msg.Timestamp.t
                     first == IF timed /\ (acc.first = ZeroTime \/ t < acc.first)
                              THEN t ELSE acc.first
                     last == IF timed /\ t > acc.last THEN t ELSE acc.last
                 IN claudeLineLoop(rest, repoRoot,
                       [first |-> first, last |-> last,
                        model |-> IF msg.Model # "" THEN msg.Model ELSE acc.model,
                        tokens |-> acc.tokens + msg.Tokens,
                        files |-> acc.files
                                  \cup claudeContentFiles(msg.Content, repoRoot)])

parseClaudeSession(file, repoRoot) ==
    IF file.openErr THEN ReaderResult(NoSession, TRUE)
    ELSE LET acc == claudeLineLoop(file.lines, repoRoot,
                       [first |-> ZeroTime, last |-> ZeroTime, model |-> "",
                        tokens |-> 0, files |-> {}])
             dur == IF acc.first # ZeroTime /\ acc.last # ZeroTime
                    THEN (acc.last - acc.first) \div 1000 ELSE 0
         IN IF acc.files = {} THEN ReaderResult(NoSession, FALSE)
            ELSE ReaderResult(SessionInfo(ToolClaudeCode, acc.files, acc.model,
                                          acc.tokens, dur),
                              file.scanErr)

\* home: whether os.UserHomeDir succeeds; dir: the repository's directory
\* under ~/.claude/projects, each .jsonl entry holding its log
detectClaudeCode(store, repoRoot, clock, age) ==
    IF ~store.home THEN ReaderResult(NoSession, FALSE)
    ELSE LET found == findLatestSession(store.dir, clock, age) IN
         IF found.err THEN ReaderResult(NoSession, TRUE)
         ELSE parseClaudeSession(ReadFile(store.dir, found.path), repoRoot)

ParseClaudeSession(F) ==
    /\ probe.reader = "none"
    /\ \E file \in F.logs :
          probe' = Probe("parseClaudeSession", file,
                         parseClaudeSession(file, StrRepoRoot))
    /\ UNCHANGED <<nonProbeVars, now, maxAge>>

DetectClaudeCode(F) ==
    /\ probe.reader = "none"
    /\ \E store \in F.claudeStores :
          probe' = Probe("detectClaudeCode", store,
                         detectClaudeCode(store, StrRepoRoot, now, maxAge))
    /\ UNCHANGED <<nonProbeVars, now, maxAge>>

-----------------------------------------------------------------------------
(* detectCursor: the composer index and the bubbles of the global store    *)

MaxBubbles == 2

\* part_002 lines 82-88
cursorWriteTools == {"edit_file", "search_replace", "create_file", "write_file", "write"}

\* the tool names the query of lines 278-282 looks for in a row's value
cursorQueryNames == {"edit_file", "search_replace", "create_file", "write_file"}

\* params and rawArgs: the text may be empty or fail to parse
NoArgs == [text |-> FALSE, parses |-> FALSE]
BadArgs == [text |-> TRUE, parses |-> FALSE]
Params(relativeWorkspacePath) ==
    [text |-> TRUE, parses |-> TRUE, RelativeWorkspacePath |-> relativeWorkspacePath]
RawArgs(targetFile, filePath) ==
    [text |-> TRUE, parses |-> TRUE, TargetFile |-> targetFile, FilePath |-> filePath]

NoToolFormer == [nil |-> TRUE]
ToolFormer(name, status, userDecision, params, rawArgs) ==
    [Name |-> name, Status |-> status, UserDecision |-> userDecision,
     Params |-> params, RawArgs |-> rawArgs]

NoTokenCount == [nil |-> TRUE]
TokenCount(inputTokens, outputTokens) ==
    [InputTokens |-> inputTokens, OutputTokens |-> outputTokens]

\* one row of cursorDiskKV under a bubbleId key: whether its value parses,
\* what it decodes to, and the quoted words its text holds besides the
\* tool's name
Bubble(parses, tokenCount, toolFormerData, mentions) ==
    [parses |-> parses, TokenCount |-> tokenCount,
     ToolFormerData |-> toolFormerData, mentions |-> mentions]

\* lines 334-359
extractCursorFilePath(tf) ==
    IF tf.Params.text /\ tf.Params.parses /\ tf.Params.RelativeWorkspacePath # <<>>
    THEN tf.Params.RelativeWorkspacePath
    ELSE IF tf.RawArgs.text /\ tf.RawArgs.parses
         THEN IF tf.RawArgs.TargetFile # <<>> THEN tf.RawArgs.TargetFile
              ELSE IF tf.RawArgs.FilePath # <<>> THEN tf.RawArgs.FilePath
              ELSE <<>>
         ELSE <<>>

\* the words LIKE finds in the row's value
QuotedWords(bubble) ==
    bubble.mentions
    \cup (IF bubble.parses /\ bubble.ToolFormerData # NoToolFormer
          THEN {bubble.ToolFormerData.Name} ELSE {})

\* lines 278-284: the rows of one composer the query returns
bubbleQuery(rows) ==
    SelectSeq(rows, LAMBDA b : QuotedWords(b) \cap cursorQueryNames # {})

RECURSIVE bubbleLoopKeepRejected(_, _)
\* a loop that does not look at the user's decision
bubbleLoopKeepRejected(values, info) ==
    IF values = <<>> THEN info
    ELSE LET bubble == Head(values)
             rest == Tail(values)
         IN IF ~bubble.parses THEN bubbleLoopKeepRejected(rest, info)
            ELSE LET tokens == IF bubble.TokenCount # NoTokenCount
                               THEN info.tokens + bubble.TokenCount.InputTokens
                                               + bubble.TokenCount.OutputTokens
                               ELSE info.tokens
                     counted == [info EXCEPT !.tokens = tokens]
                     tf == bubble.ToolFormerData
                 IN IF tf = NoToolFormer THEN bubbleLoopKeepRejected(rest, counted)
                    ELSE IF tf.Name \notin cursorWriteTools THEN bubbleLoopKeepRejected(rest, counted)
                    ELSE IF tf.Status # "completed" THEN bubbleLoopKeepRejected(rest, counted)
                    ELSE IF FALSE THEN bubbleLoopKeepRejected(rest, counted)
                    ELSE IF extractCursorFilePath(tf) # <<>>
                         THEN bubbleLoopKeepRejected(rest,
                                 [counted EXCEPT !.files = @ \cup {extractCursorFilePath(tf)}])
                         ELSE bubbleLoopKeepRejected(rest, counted)

RECURSIVE bubbleLoop(_, _)
\* lines 289-323: info holds TotalTokens and FilesWritten
bubbleLoop(values, info) ==
    IF values = <<>> THEN info
    ELSE LET bubble == Head(values)
             rest == Tail(values)
         IN IF ~bubble.parses THEN bubbleLoop(rest, info)
            ELSE LET tokens == IF bubble.TokenCount # NoTokenCount
                               THEN info.tokens + bubble.TokenCount.InputTokens
                                               + bubble.TokenCount.OutputTokens
                               ELSE info.tokens
                     counted == [info EXCEPT !.tokens = tokens]
                     tf == bubble.ToolFormerData
                 IN IF tf = NoToolFormer THEN bubbleLoop(rest, counted)
                    ELSE IF tf.Name \notin cursorWriteTools THEN bubbleLoop(rest, counted)
                    ELSE IF tf.Status # "completed" THEN bubbleLoop(rest, counted)
                    ELSE IF tf.UserDecision = "rejected" THEN bubbleLoop(rest, counted)
                    ELSE IF extractCursorFilePath(tf) # <<>>
                         THEN bubbleLoop(rest,
                                 [counted EXCEPT !.files = @ \cup {extractCursorFilePath(tf)}])
                         ELSE bubbleLoop(rest, counted)

RECURSIVE composerLoop(_, _, _)
\* lines 275-324: the composers in turn; a failed query skips the composer
composerLoop(global, composerIds, info) ==
    IF composerIds = <<>> THEN info
    ELSE LET found == global.bubbles[Head(composerIds)] IN
         IF found.queryErr THEN composerLoop(global, Tail(composerIds), info)
         ELSE composerLoop(global, Tail(composerIds),
                           bubbleLoop(bubbleQuery(found.rows), info))

\* the global store: os.Stat may fail, the table check may fail or find no
\* table; bubbles and composerData give, per composer id, the rows stored
GlobalDB(exists, tableErr, hasTable, bubbles, composerData) ==
    [exists |-> exists, tableErr |-> tableErr, hasTable |-> hasTable,
     bubbles |-> bubbles, composerData |-> composerData]

parseCursorBubbles(global, composerIds) ==
    IF ~global.exists THEN ReaderResult(NoSession, FALSE)
    ELSE IF global.tableErr \/ ~global.hasTable THEN ReaderResult(NoSession, FALSE)
    ELSE LET info == composerLoop(global, composerIds, [tokens |-> 0, files |-> {}])
         IN IF info.files = {} THEN ReaderResult(NoSession, FALSE)
            ELSE ReaderResult(SessionInfo(ToolCursor, info.files, "", info.tokens, 0),
                              FALSE)

\* lines 363-373 around the choice of lines 375-389: the models the composer's
\* metadata may give
composerModels(data) ==
    IF data.queryErr \/ ~data.found \/ ~data.parses THEN {""}
    ELSE parseCursorComposerModel(data.usageKeys, data.configName)

RECURSIVE latestComposer(_, _, _)
\* lines 419-425
latestComposer(composers, latestComposerId, latestTimestamp) ==
    IF composers = <<>> THEN latestComposerId
    ELSE LET c == Head(composers) IN
         IF c.LastUpdatedAt > latestTimestamp
         THEN latestComposer(Tail(composers), c.ComposerID, c.LastUpdatedAt)
         ELSE latestComposer(Tail(composers), latestComposerId, latestTimestamp)

RECURSIVE composerSpan(_, _, _)
\* lines 438-449
composerSpan(composers, earliest, latest) ==
    IF composers = <<>>
    THEN IF earliest > 0 /\ latest > earliest THEN (latest - earliest) \div 1000 ELSE 0
    ELSE LET c == Head(composers) IN
         composerSpan(Tail(composers),
                      IF earliest = 0 \/ c.CreatedAt < earliest THEN c.CreatedAt ELSE earliest,
                      IF c.LastUpdatedAt > latest THEN c.LastUpdatedAt ELSE latest)

\* the results detectCursor may return: one per model the metadata may give
detectCursor(store, clock, age) ==
    IF ~store.sqlite3 THEN {ReaderResult(NoSession, FALSE)}
    ELSE IF ~store.workspace THEN {ReaderResult(NoSession, FALSE)}
    ELSE LET found == findCursorComposers(store.db, clock, age)
             composers == found.composers
         IN IF found.err \/ composers = <<>> THEN {ReaderResult(NoSession, FALSE)}
            ELSE IF ~store.globalPath THEN {ReaderResult(NoSession, FALSE)}
            ELSE LET composerIds == [i \in DOMAIN composers |-> composers[i].ComposerID]
                     latestComposerId == latestComposer(composers, "", 0)
                     r == parseCursorBubbles(store.global, composerIds)
                 IN IF r.err \/ r.session = NoSession
                    THEN {ReaderResult(NoSession, FALSE)}
                    ELSE {ReaderResult(
                             [r.session EXCEPT
                                 !.Model = model,
                                 !.SessionDurationSec = composerSpan(composers, 0, 0)],
                             FALSE) :
                          model \in IF latestComposerId # ""
                                    THEN composerModels(store.global.composerData[latestComposerId])
                                    ELSE {""}}

ParseCursorBubbles(F) ==
    /\ probe.reader = "none"
    /\ \E g \in F.globals :
          probe' = Probe("parseCursorBubbles", g,
                         parseCursorBubbles(g, F.composerIds))
    /\ UNCHANGED <<nonProbeVars, now, maxAge>>

DetectCursor(F) ==
    /\ probe.reader = "none"
    /\ \E store \in F.cursorStores :
       \E r \in detectCursor(store, now, maxAge) :
          probe' = Probe("detectCursor", store, r)
    /\ UNCHANGED <<nonProbeVars, now, maxAge>>

-----------------------------------------------------------------------------
(* The four readers against stores that are missing, stale or damaged.     *)

AssistantEdit(t, path) ==
    LogLine(TRUE, TRUE, "assistant", Stamp(t), "m1", 5,
            <<ContentItem("tool_use", "Edit", InRepo(path))>>)

\* a line json.Unmarshal rejects
BrokenLine == LogLine(TRUE, FALSE, "", NoStamp, "", 0, <<>>)

EditLog == LogFile(FALSE, <<AssistantEdit(1000, PathA)>>, FALSE)
BrokenLog == LogFile(FALSE, <<BrokenLine, BrokenLine>>, FALSE)
EmptyLog == LogFile(FALSE, <<>>, FALSE)

\* a log changed before, at or after the cutoff; a directory
LogEntryKinds ==
    {[isDir |-> FALSE, infoErr |-> FALSE, modTime |-> t] :
        t \in (Horizon - 4)..(Horizon - 2)}
    \cup {[isDir |-> TRUE, infoErr |-> FALSE, modTime |-> Horizon]}

\* the .jsonl names of the table
LogNames == {i \in DOMAIN NameTable : HasSuffix(NameTable[i], StrJsonl)}

ClaudeStores ==
    {[home |-> FALSE, dir |-> ReadDir(TRUE, <<>>)],
     [home |-> TRUE, dir |-> ReadDir(TRUE, <<>>)]}
    \cup UNION {{[home |-> TRUE, dir |-> ListingOf(kindOf, contentOf)] :
                    kindOf \in [S -> LogEntryKinds],
                    contentOf \in [S -> {EditLog, BrokenLog, EmptyLog}]} :
                S \in {T \in SUBSET LogNames : Cardinality(T) <= MaxEntries}}

EditBubble(name, status, decision, path) ==
    Bubble(TRUE, TokenCount(3, 4),
           ToolFormer(name, status, decision, Params(path), NoArgs), {})

\* a row whose value does not parse but holds the word the query looks for
BrokenBubble == Bubble(FALSE, NoTokenCount, NoToolFormer, {"edit_file"})

NoRows == [queryErr |-> FALSE, rows |-> <<>>]
NoComposerData ==
    [queryErr |-> FALSE, found |-> FALSE, parses |-> FALSE,
     usageKeys |-> {}, configName |-> ""]
ComposerData(usageKeys, configName) ==
    [queryErr |-> FALSE, found |-> TRUE, parses |-> TRUE,
     usageKeys |-> usageKeys, configName |-> configName]

ComposerIds == {"c1", "c2"}

\* global stores whose composer c1 holds the given rows
GlobalWith(rows) ==
    GlobalDB(TRUE, FALSE, TRUE,
             [id \in ComposerIds |->
                 IF id = "c1" THEN [queryErr |-> FALSE, rows |-> rows] ELSE NoRows],
             [id \in ComposerIds |->
                 IF id = "c1" THEN ComposerData({"m1"}, "") ELSE NoComposerData])

DamagedGlobals ==
    {GlobalDB(FALSE, FALSE, FALSE, [id \in ComposerIds |-> NoRows],
              [id \in ComposerIds |-> NoComposerData]),
     GlobalDB(TRUE, TRUE, FALSE, [id \in ComposerIds |-> NoRows],
              [id \in ComposerIds |-> NoComposerData]),
     GlobalDB(TRUE, FALSE, FALSE, [id \in ComposerIds |-> NoRows],
              [id \in ComposerIds |-> NoComposerData]),
     GlobalDB(TRUE, FALSE, TRUE,
              [id \in ComposerIds |-> [queryErr |-> TRUE, rows |-> <<>>]],
              [id \in ComposerIds |-> NoComposerData]),
     GlobalWith(<<>>), GlobalWith(<<BrokenBubble>>),
     GlobalWith(<<EditBubble("edit_file", "completed", "", PathA)>>)}

CursorStores ==
    {[sqlite3 |-> s, workspace |-> w, db |-> db, globalPath |-> p, global |-> g] :
        s \in BOOLEAN, w \in BOOLEAN, p \in BOOLEAN, g \in DamagedGlobals,
        db \in {WorkspaceDB(FALSE, FALSE, <<>>), WorkspaceDB(TRUE, TRUE, <<>>),
                WorkspaceDB(TRUE, FALSE, <<>>),
                WorkspaceDB(TRUE, FALSE, <<[format |-> "neither", composers |-> <<>>]>>)}
               \cup {WorkspaceDB(TRUE, FALSE,
                                 <<[format |-> "object",
                                    composers |-> <<ComposerHead("c1", 0, u)>>]>>) :
                        u \in Millis}}

Readers ==
    [claudeStores |-> ClaudeStores, histories |-> Histories,
     workspaces |-> Workspaces, cursorStores |-> CursorStores]

NextReaders ==
    \/ DetectClaudeCode(Readers)
    \/ DetectAider(Readers)
    \/ DetectCopilot(Readers)
    \/ DetectCursor(Readers)

SpecReaders == InitAge /\ [][NextReaders]_vars

AbsentResult == ReaderResult(NoSession, FALSE)

\* the logs findLatestSession is to choose among
RecentLogs ==
    IF probe.in.home /\ ~probe.in.dir.readErr
    THEN {e \in ToSetOfSeq(probe.in.dir.entries) :
             /\ ~e.isDir /\ ~e.infoErr /\ e.modTime >= Cutoff
             /\ e.name \in {NameA, NameB}}
    ELSE {}

\* Claude Code is not installed, has no recent log, or every recent log is
\* damaged or empty
ClaudeNothingToRead ==
    \/ ~probe.in.home
    \/ probe.in.dir.readErr
    \/ RecentLogs = {}
    \/ \A e \in RecentLogs : e.content \in {BrokenLog, EmptyLog}

\* no history file, a stale one, or one without a usable heading
AiderNothingToRead ==
    \/ ~probe.in.exists
    \/ /\ ~probe.in.openErr /\ ~probe.in.statErr /\ ~probe.in.scanErr
       /\ \/ probe.in.modTime < Cutoff
          \/ \A i \in DOMAIN probe.in.lines :
                probe.in.lines[i] \in {LineTwoWords, LineBare, LineProse}

\* no workspace, no chat directory, no recent session file, or only damaged
\* ones
CopilotNothingToRead ==
    \/ ~probe.in.found
    \/ probe.in.chatSessions.readErr
    \/ \A e \in RecentFiles : e.content \in {Unreadable, Malformed}

\* sqlite3 or a store is missing, the index is damaged or stale, or the
\* global store is damaged
CursorNothingToRead ==
    \/ ~probe.in.sqlite3 \/ ~probe.in.workspace \/ ~probe.in.globalPath
    \/ ~probe.in.db.exists \/ probe.in.db.queryErr \/ probe.in.db.rows = <<>>
    \/ probe.in.db.rows[1].format = "neither"
    \/ \A i \in DOMAIN probe.in.db.rows[1].composers :
          probe.in.db.rows[1].composers[i].LastUpdatedAt * TicksPerMs < Cutoff
    \/ probe.in.global \in DamagedGlobals \ {GlobalWith(<<EditBubble("edit_file", "completed", "", PathA)>>)}

\* detectAider, detectCopilot and detectCursor return absent without an
\* error when there is nothing to read.
C11_OtherReadersAbsentWithoutError ==
    /\ (probe.reader = "detectAider" /\ AiderNothingToRead) => probe.out = AbsentResult
    /\ (probe.reader = "detectCopilot" /\ CopilotNothingToRead) => probe.out = AbsentResult
    /\ (probe.reader = "detectCursor" /\ CursorNothingToRead) => probe.out = AbsentResult

\* C11: every session reader (detectClaudeCode, detectAider, detectCopilot,
\* detectCursor) returns absent with no error when the tool is not
\* installed, when no session lies within the age window, or when an
\* artifact is corrupted.
C11_AbsenceIsNeverAnError ==
    /\ C11_OtherReadersAbsentWithoutError
    /\ (probe.reader = "detectClaudeCode" /\ ClaudeNothingToRead) => probe.out = AbsentResult

\* detectClaudeCode returns an error, not absent, exactly when the session
\* directory cannot be listed or holds no recent log.
C11_ClaudeReportsMissingSessions ==
    probe.reader = "detectClaudeCode" =>
       (probe.out.err <=> (probe.in.home /\ RecentLogs = {}))

-----------------------------------------------------------------------------
(* parseCursorBubbles against rows of every status and decision.           *)

\* a tool's name with the other quoted words of the row's text
NamedRows ==
    {[name |-> "edit_file", mentions |-> {}, path |-> PathA],
     [name |-> "read_file", mentions |-> {}, path |-> PathA],
     [name |-> "write", mentions |-> {}, path |-> PathB],
     [name |-> "write", mentions |-> {"edit_file"}, path |-> PathB]}

ToolRows ==
    {Bubble(TRUE, TokenCount(3, 4),
            ToolFormer(n.name, status, decision, Params(n.path), NoArgs), n.mentions) :
        n \in NamedRows,
        status \in {"completed", "cancelled"},
        decision \in {"", "accepted", "rejected"}}

RowLists(n) == UNION {[1..k -> ToolRows \cup {BrokenBubble}] : k \in 0..n}

\* composer c1 holds any rows, composer c2 one completed edit of c.go
BubbleGlobals(n) ==
    {GlobalDB(TRUE, FALSE, TRUE,
              [id \in ComposerIds |->
                  IF id = "c1" THEN [queryErr |-> FALSE, rows |-> rows]
                  ELSE [queryErr |-> failed,
                        rows |-> <<EditBubble("create_file", "completed", "accepted", PathC)>>]],
              [id \in ComposerIds |-> NoComposerData]) :
        rows \in RowLists(n), failed \in BOOLEAN}

NextBubbles ==
    ParseCursorBubbles([globals |-> BubbleGlobals(MaxBubbles),
                        composerIds |-> <<"c1", "c2">>])

SpecBubbles == InitCopilot /\ [][NextBubbles]_vars

\* the rows the queries of the call hand to the loop
ReturnedRows ==
    UNION {{r \in ToSetOfSeq(probe.in.bubbles[id].rows) :
               /\ r.parses
               /\ r.ToolFormerData # NoToolFormer
               /\ (r.mentions \cup {r.ToolFormerData.Name}) \cap cursorQueryNames # {}} :
           id \in {c \in ComposerIds : ~probe.in.bubbles[c].queryErr}}

\* the write-tool rows among them
WriteToolRows == {r \in ReturnedRows : r.ToolFormerData.Name \in cursorWriteTools}

Accepted(r) ==
    /\ r.ToolFormerData.Status = "completed"
    /\ r.ToolFormerData.UserDecision # "rejected"

CollectedFiles ==
    IF probe.out.session = NoSession THEN {} ELSE probe.out.session.FilesWritten

-----------------------------------------------------------------------------
(* The JSON shape of an Attribution (encoding/json with the struct tags of  *)
(* types.go).  A document is a function from the keys written to their     *)
(* values; a string value is the text between its quotes.  The strings of  *)
(* an Attribution are byte sequences here.                                 *)

MaxTextLen == 2
MaxDetections == 2

HexDigit(n) == IF n < 10 THEN 48 + n ELSE 87 + n
HexValue(c) == IF c >= 48 /\ c <= 57 THEN c - 48 ELSE c - 87

\* \u00XX
EscapeByte(b) == <<92, 117, 48, 48, HexDigit(b \div 16), HexDigit(b % 16)>>

\* \ufffd, the replacement rune
StrReplacement == <<92, 117, 102, 102, 102, 100>>

\* how json.Marshal writes one byte of a string.  The strings of the model
\* hold no continuation byte, so a byte above 127 never starts a valid
\* UTF-8 sequence and is replaced
encodeByte(b) ==
    IF b = 34 \/ b = 92 THEN <<92, b>>
    ELSE IF b = 10 THEN <<92, 110>>
    ELSE IF b < 32 \/ b \in {60, 62, 38} THEN EscapeByte(b)
    ELSE IF b > 127 THEN StrReplacement
    ELSE <<b>>

RECURSIVE encodeStringRaw(_)
\* a writer that escapes nothing
encodeStringRaw(s) ==
    IF s = <<>> THEN <<>> ELSE <<Head(s)>> \o encodeStringRaw(Tail(s))

RECURSIVE encodeString(_)
encodeString(s) ==
    IF s = <<>> THEN <<>> ELSE encodeByte(Head(s)) \o encodeString(Tail(s))

\* the UTF-8 bytes of a rune of the basic plane
Utf8(r) ==
    IF r < 128 THEN <<r>>
    ELSE IF r < 2048 THEN <<192 + (r \div 64), 128 + (r % 64)>>
    ELSE <<224 + (r \div 4096), 128 + ((r \div 64) % 64), 128 + (r % 64)>>

RECURSIVE decodeString(_)
\* how json.Unmarshal reads the text of a string
decodeString(t) ==
    IF t = <<>> THEN <<>>
    ELSE IF t[1] # 92 \/ Len(t) < 2 THEN <<t[1]>> \o decodeString(Tail(t))
    ELSE IF t[2] = 110 THEN <<10>> \o decodeString(SubSeq(t, 3, Len(t)))
    ELSE IF t[2] = 117 /\ Len(t) >= 6
         THEN Utf8(4096 * HexValue(t[3]) + 256 * HexValue(t[4])
                   + 16 * HexValue(t[5]) + HexValue(t[6]))
              \o decodeString(SubSeq(t, 7, Len(t)))
    ELSE <<t[2]>> \o decodeString(SubSeq(t, 3, Len(t)))

\* types.go lines 32-42: files_matched, model, token_usage and
\* session_duration_sec carry omitempty
marshalDetection(d) ==
    [k \in {"tool", "confidence", "method", "files_committed", "ai_files"}
           \cup (IF Len(d.FilesMatched) = 0 THEN {} ELSE {"files_matched"})
           \cup (IF d.Model = <<>> THEN {} ELSE {"model"})
           \cup (IF d.TokenUsage = 0 THEN {} ELSE {"token_usage"})
           \cup (IF d.SessionDurationSec = 0 THEN {} ELSE {"session_duration_sec"})
     |-> CASE k = "tool" -> d.Tool
           [] k = "confidence" -> d.Confidence
           [] k = "method" -> d.Method
           [] k = "files_committed" -> d.FilesCommitted
           [] k = "ai_files" -> d.AIFiles
           [] k = "files_matched" ->
                 [i \in DOMAIN d.FilesMatched |-> encodeString(d.FilesMatched[i])]
           [] k = "model" -> encodeString(d.Model)
           [] k = "token_usage" -> d.TokenUsage
           [] k = "session_duration_sec" -> d.SessionDurationSec]

\* a field whose key is missing keeps its zero value
unmarshalDetection(o) ==
    Detection(o["tool"], o["confidence"], o["method"],
              IF "files_matched" \in DOMAIN o
              THEN [i \in DOMAIN o["files_matched"] |-> decodeString(o["files_matched"][i])]
              ELSE <<>>,
              o["files_committed"], o["ai_files"],
              IF "model" \in DOMAIN o THEN decodeString(o["model"]) ELSE <<>>,
              IF "token_usage" \in DOMAIN o THEN o["token_usage"] ELSE 0,
              IF "session_duration_sec" \in DOMAIN o THEN o["session_duration_sec"] ELSE 0)

\* types.go lines 45-51
marshalAttribution(a) ==
    [commit_sha |-> encodeString(a.CommitSHA),
     commit_author |-> encodeString(a.CommitAuthor),
     repo |-> encodeString(a.Repo),
     timestamp |-> encodeString(a.Timestamp),
     detections |-> [i \in DOMAIN a.Detections |-> marshalDetection(a.Detections[i])]]

unmarshalAttribution(o) ==
    [CommitSHA |-> decodeString(o.commit_sha),
     CommitAuthor |-> decodeString(o.commit_author),
     Repo |-> decodeString(o.repo),
     Timestamp |-> decodeString(o.timestamp),
     Detections |-> [i \in DOMAIN o.detections |-> unmarshalDetection(o.detections[i])]]

\* config.go line 85: the Attribution is written out
MarshalAttribution(F) ==
    /\ probe.reader = "none"
    /\ \E a \in F.attributions :
          probe' = [reader |-> "json.Marshal", in |-> a, out |-> marshalAttribution(a)]
    /\ UNCHANGED <<nonProbeVars, now, maxAge>>

\* config.go line 150: and read back
UnmarshalAttribution ==
    /\ probe.reader = "json.Marshal"
    /\ probe' = [reader |-> "json.Unmarshal", in |-> probe.in, out |-> probe.out,
                 back |-> unmarshalAttribution(probe.out)]
    /\ UNCHANGED <<nonProbeVars, now, maxAge>>

\* a letter, the quote, the backslash, the less-than sign, a newline, and a
\* byte that is not UTF-8 on its own
TextBytes == {Ch.a, 34, 92, 60, Ch.nl, 233}

\* the bytes of the file names and model names
DetectionBytes == {Ch.a, 92, 233}

JsonDetections ==
    {Detection(ToolClaudeCode, ConfidenceHigh, MethodFileMatch, <<f>>, 2, 1, m, t, d) :
        f \in Texts(DetectionBytes, 1) \ {<<>>}, m \in Texts(DetectionBytes, 1),
        t \in {0, 7}, d \in {0, 60}}

MediumDetections ==
    {Detection(tool, ConfidenceMedium, method, <<>>, 2, 0, <<>>, 0, 0) :
        tool \in {ToolAider, ToolCursor}, method \in {MethodProcess, MethodCoAuthorTrailer}}

\* the Attributions whose author has up to len bytes and that hold up to n detections
JsonAttributions(len, n) ==
    {[CommitSHA |-> TextSha, CommitAuthor |-> author, Repo |-> <<>>,
      Timestamp |-> <<Ch.a>>, Detections |-> <<d>> \o more] :
        author \in Texts(TextBytes, len), d \in JsonDetections \cup MediumDetections,
        more \in UNION {[1..k -> MediumDetections] : k \in 0..(n - 1)}}

NextJson ==
    \/ MarshalAttribution([attributions |-> JsonAttributions(MaxTextLen, MaxDetections)])
    \/ UnmarshalAttribution

SpecJson == InitCopilot /\ [][NextJson]_vars

\* the keys of a written Detection are the five mandatory ones and those of
\* the non-zero optional fields
KeysAsDocumented(d, o) ==
    /\ {"tool", "confidence", "method", "files_committed", "ai_files"} \subseteq DOMAIN o
    /\ "model" \in DOMAIN o <=> d.Model # <<>>
    /\ "token_usage" \in DOMAIN o <=> d.TokenUsage # 0
    /\ "session_duration_sec" \in DOMAIN o <=> d.SessionDurationSec # 0

RoundTrip ==
    /\ probe.back = probe.in
    /\ \A i \in DOMAIN probe.in.Detections :
          KeysAsDocumented(probe.in.Detections[i], probe.out.detections[i])

\* C13 as stated: serializing an Attribution to the documented JSON shape and
\* deserializing it again yields an Attribution equal to the original; model,
\* token_usage and session_duration_sec are omitted exactly when empty or
\* zero, and tool, confidence, method, files_committed and ai_files are
\* always present.
C13_RoundTripIsLossless ==
    probe.reader = "json.Unmarshal" => RoundTrip

ValidUtf8(s) == \A i \in DOMAIN s : s[i] < 128

ValidText(a) ==
    /\ ValidUtf8(a.CommitSHA) /\ ValidUtf8(a.CommitAuthor)
    /\ ValidUtf8(a.Repo) /\ ValidUtf8(a.Timestamp)
    /\ \A i \in DOMAIN a.Detections :
          /\ ValidUtf8(a.Detections[i].Model)
          /\ \A j \in DOMAIN a.Detections[i].FilesMatched :
                ValidUtf8(a.Detections[i].FilesMatched[j])

\* C13 amended: the round trip is lossless, with the optional fields omitted
\* exactly when empty or zero, for every Attribution whose strings are valid
\* UTF-8.
C13_RoundTripOfValidTextIsLossless ==
    (probe.reader = "json.Unmarshal" /\ ValidText(probe.in)) => RoundTrip

\* an Attribution with a quote and a backslash in its author, one Detection
\* with every optional field set and one with none, read back
C13_Witness ==
    /\ probe.reader = "json.Unmarshal"
    /\ probe.in.CommitAuthor = <<34, 92>>
    /\ Len(probe.in.Detections) = 2
    /\ probe.in.Detections[1].Model = <<92>>
    /\ probe.in.Detections[1].TokenUsage = 7
    /\ probe.in.Detections[1].SessionDurationSec = 60
    /\ DOMAIN probe.out.detections[2] =
          {"tool", "confidence", "method", "files_committed", "ai_files"}
    /\ probe.back = probe.in


\* ---------------------------------------------------------------------------
\* sessionMaxAge (detector.go:19-28): the recency window read from the
\* environment.  Go's int and time.Duration are both 64 bits wide and an hour
\* is 3.6e12 nanoseconds; the model keeps the two facts that matter, the common
\* width (IntBits) and an hour that is many units long (Hour), at a scale where
\* the default of 72 hours still fits and a few hours more do not.
\* ---------------------------------------------------------------------------
IntBits == 10

Hour == 7

defaultMaxAgeHours == 72

MaxEnvLen == 3

Digit == [zero |-> 48, nine |-> 57, plus |-> 43, minus |-> 45]

MaxInt == 2 ^ (IntBits - 1) - 1

MinInt == 0 - 2 ^ (IntBits - 1)

\* Two's complement wrap-around of an arithmetic result to IntBits bits.
wrap(x) == ((x - MinInt) % 2 ^ IntBits) + MinInt

\* The environment holds the variable or not; os.Getenv gives "" for both an
\* unset and an empty variable.
Env(isSet, value) == [isSet |-> isSet, value |-> value]

Getenv(env) == IF env.isSet THEN env.value ELSE <<>>

IsDigits(s) == \A i \in 1..Len(s) : s[i] >= Digit.zero /\ s[i] <= Digit.nine

RECURSIVE digitsValue(_)
digitsValue(s) ==
    IF s = <<>> THEN 0
    ELSE digitsValue(SubSeq(s, 1, Len(s) - 1)) * 10 + (s[Len(s)] - Digit.zero)

\* strconv.Atoi: an optional sign, then one or more decimal digits, nothing
\* else; a value that does not fit the int is a range error.
Atoi(s) ==
    LET signed == s /= <<>> /\ s[1] \in {Digit.plus, Digit.minus}
        body   == IF signed THEN Tail(s) ELSE s
        neg    == signed /\ s[1] = Digit.minus
        n      == IF neg THEN 0 - digitsValue(body) ELSE digitsValue(body)
    IN  IF body = <<>> \/ ~IsDigits(body)   THEN [n |-> 0, err |-> TRUE]
        ELSE IF n > MaxInt \/ n < MinInt      THEN [n |-> 0, err |-> TRUE]
        ELSE [n |-> n, err |-> FALSE]

sessionMaxAge(env) ==
    LET v == Getenv(env)
        r == Atoi(v)
    IN  IF v /= <<>> /\ ~r.err /\ r.n > 0
        THEN wrap(r.n * Hour)
        ELSE wrap(defaultMaxAgeHours * Hour)

SessionMaxAge(F) ==
    /\ probe.reader = "none"
    /\ \E env \in F.envs :
         probe' = Probe("sessionMaxAge", env, sessionMaxAge(env))
    /\ UNCHANGED <<nonProbeVars, now, maxAge>>

\* ---- environments -------------------------------------------------------
EnvBytes == {Digit.zero, Digit.zero + 1, Digit.zero + 7, Digit.nine,
             Digit.plus, Digit.minus, Ch.a, Ch.sp}

EnvValues(n) == UNION {[1..k -> EnvBytes] : k \in 0..n}

Envs(n) == {Env(s, v) : s \in BOOLEAN, v \in EnvValues(n)}

NextMaxAge == SessionMaxAge([envs |-> Envs(MaxEnvLen)])

SpecMaxAge == InitCopilot /\ [][NextMaxAge]_vars

\* ---- C14 ----------------------------------------------------------------
\* What the claim calls "set to a positive integer h": the variable is set and
\* its value is a decimal numeral, with an optional sign, of a number h > 0.
\* The numeral is read mathematically: no width, no range.
IsNumeral(v) ==
    LET body == IF v /= <<>> /\ v[1] \in {Digit.plus, Digit.minus} THEN Tail(v) ELSE v
    IN  body /= <<>> /\ IsDigits(body)

NumeralValue(v) ==
    IF v[1] = Digit.minus THEN 0 - digitsValue(Tail(v))
    ELSE IF v[1] = Digit.plus THEN digitsValue(Tail(v))
    ELSE digitsValue(v)

PositiveInteger(env) ==
    env.isSet /\ IsNumeral(env.value) /\ NumeralValue(env.value) > 0

Claimed(env) ==
    IF PositiveInteger(env) THEN NumeralValue(env.value) * Hour
    ELSE defaultMaxAgeHours * Hour

\* C14: sessionMaxAge returns h hours when TEMPO_SESSION_MAX_AGE is set to a
\* positive integer h, and 72 hours in every other case (unset, empty,
\* non-numeric, zero or negative).
C14_HoursOrDefault ==
    probe.reader = "sessionMaxAge" => probe.out = Claimed(probe.in)

\* C14, the part of it the code keeps: the statement holds for every value
\* whose h hours fit a Duration.
C14_HoursOrDefaultWithinRange ==
    (probe.reader = "sessionMaxAge"
       /\ (PositiveInteger(probe.in) =>
             NumeralValue(probe.in.value) * Hour <= MaxInt))
    => probe.out = Claimed(probe.in)

\* C14, an override that is applied: a positive h whose hours fit.
C14_Witness ==
    /\ probe.reader = "sessionMaxAge"
    /\ PositiveInteger(probe.in)
    /\ NumeralValue(probe.in.value) /= defaultMaxAgeHours
    /\ probe.out = NumeralValue(probe.in.value) * Hour

\* C14, an h whose hours do not fit: the result is not h hours, and negative.
C14_Overflow ==
    /\ probe.reader = "sessionMaxAge"
    /\ PositiveInteger(probe.in)
    /\ probe.out < 0


\* ---------------------------------------------------------------------------
\* internal/hooks: the hook scripts of the repository.
\*
\* A hook file is a string.  The code looks at it through strings.Split on
\* "\n", strings.TrimSpace, strings.Contains and strings.HasSuffix, so the
\* newline and the space are the bytes Ch.nl and Ch.sp, and every other piece
\* of text the code compares as a whole (a marker, the shebang, a command) is
\* one symbol of Word.  No symbol is a white-space byte and no symbol's text
\* contains another's: the end marker "# --- END TEMPO CLI HOOK ---" does
\* not contain the start marker "# --- TEMPO CLI HOOK ---".
\* ---------------------------------------------------------------------------
MaxHookBlocks == 3

MaxHookCalls == 3

Word == [start |-> 1, end |-> 2, shebang |-> 3, ifCommand |-> 4, detect |-> 5,
         sync |-> 6, fi |-> 7, husky |-> 8, old |-> 14, tempoDir |-> 15,
         other |-> 16]

NL == <<Ch.nl>>

startMarker == <<Word.start>>

endMarker == <<Word.end>>

StrShebang == <<Word.shebang>>

postCommitHook ==
    startMarker \o NL \o <<Word.ifCommand>> \o NL
        \o <<Ch.sp, Ch.sp, Word.detect>> \o NL \o <<Word.fi>> \o NL \o endMarker

prePushHook ==
    startMarker \o NL \o <<Word.ifCommand>> \o NL
        \o <<Ch.sp, Ch.sp, Word.sync>> \o NL \o <<Word.fi>> \o NL \o endMarker

\* strings.Contains and strings.Count (non-overlapping occurrences)
ContainsStr(s, sub) ==
    \E i \in 0..(Len(s) - Len(sub)) : SubSeq(s, i + 1, i + Len(sub)) = sub

RECURSIVE CountStr(_, _)
CountStr(s, sub) ==
    IF Len(s) < Len(sub) THEN 0
    ELSE IF SubSeq(s, 1, Len(sub)) = sub
         THEN 1 + CountStr(SubSeq(s, Len(sub) + 1, Len(s)), sub)
         ELSE CountStr(Tail(s), sub)

\* strings.Join(lines, "\n")
RECURSIVE JoinLines(_)
JoinLines(lines) ==
    IF lines = <<>> THEN <<>>
    ELSE IF Len(lines) = 1 THEN lines[1]
    ELSE lines[1] \o NL \o JoinLines(Tail(lines))

\* a file of the repository: os.ReadFile finds it or reports that it does
\* not exist; os.WriteFile creates or replaces it; os.Remove deletes it
File(data) == [exists |-> TRUE, data |-> data]

\* the loop shared by replaceSection and removeSection (hooks.go:121-133 and
\* 153-165): the lines outside the marked sections, in order
RECURSIVE sectionLoop(_, _, _)
sectionLoop(lines, inSection, result) ==
    IF lines = <<>> THEN result
    ELSE LET line == Head(lines)
         IN  IF TrimSpace(line) = startMarker
             THEN sectionLoop(Tail(lines), TRUE, result)
             ELSE IF TrimSpace(line) = endMarker
             THEN sectionLoop(Tail(lines), FALSE, result)
             ELSE IF ~inSection
             THEN sectionLoop(Tail(lines), inSection, Append(result, line))
             ELSE sectionLoop(Tail(lines), inSection, result)

\* hooks.go:136-138
RECURSIVE dropTrailingBlank(_)
dropTrailingBlank(result) ==
    IF result /= <<>> /\ TrimSpace(result[Len(result)]) = <<>>
    THEN dropTrailingBlank(SubSeq(result, 1, Len(result) - 1))
    ELSE result

replaceSection(content, newSection) ==
    LET result == dropTrailingBlank(sectionLoop(SplitLines(content), FALSE, <<>>))
        out    == JoinLines(result)
    IN  (IF out /= <<>> THEN out \o NL ELSE out) \o newSection \o NL

removeSection(content) ==
    JoinLines(sectionLoop(SplitLines(content), FALSE, <<>>))

\* installHook's effect on the hook file at its path
installHook(file, content) ==
    IF ~file.exists
    THEN File(StrShebang \o NL \o content \o NL)
    ELSE IF ContainsStr(file.data, startMarker)
    THEN File(replaceSection(file.data, content))
    ELSE LET s == IF HasSuffix(file.data, NL) THEN file.data ELSE file.data \o NL
         IN  File(s \o content \o NL)

\* removeHookSection's effect on the hook file at its path
removeHookSection(file) ==
    IF ~file.exists THEN file
    ELSE IF ~ContainsStr(file.data, startMarker) THEN file
    ELSE LET cleaned == TrimSpace(removeSection(file.data))
         IN  IF cleaned = <<>> \/ cleaned = StrShebang
             THEN NoFile
             ELSE File(cleaned \o NL)

ensureGitignore(file) ==
    LET content == file.data
    IN  IF ContainsStr(content, <<Word.tempoDir, Ch.slash>>) THEN file
        ELSE File((IF content /= <<>> /\ ~HasSuffix(content, NL)
                   THEN content \o NL ELSE content)
                  \o <<Word.tempoDir, Ch.slash>> \o NL)

\* os.MkdirAll(".tempo/pending")
MkdirAll(dir) == [dir EXCEPT !.exists = TRUE]

IsInstalledAnyHook(r) == r.postCommit.exists

IsInstalled(r) ==
    IF ~r.postCommit.exists THEN FALSE
    ELSE ContainsStr(r.postCommit.data, startMarker)

HookCall(op) == [op |-> op, before |-> repo]

Install ==
    /\ Len(hookLog) < MaxHookCalls
    /\ repo' = [postCommit |-> installHook(repo.postCommit, postCommitHook),
                prePush    |-> installHook(repo.prePush, prePushHook),
                gitignore  |-> ensureGitignore(repo.gitignore)]
    /\ pending' = MkdirAll(pending)
    /\ hookLog' = Append(hookLog, HookCall("Install"))
    /\ UNCHANGED <<detVars, probeVars, savers, syncer, pendingCount>>

Uninstall ==
    /\ Len(hookLog) < MaxHookCalls
    /\ repo' = [repo EXCEPT !.postCommit = removeHookSection(repo.postCommit),
                            !.prePush    = removeHookSection(repo.prePush)]
    /\ hookLog' = Append(hookLog, HookCall("Uninstall"))
    /\ UNCHANGED <<detVars, probeVars, cfgVars>>

\* ---- hook files ---------------------------------------------------------
\* The pieces a hook file found in a repository is made of: foreign lines
\* (a shebang, a command, an empty line, a command with blanks around it, a
\* command that mentions the marker text), marker lines on their own, and a
\* section as an older tempo-cli wrote it.
LineShebang == <<StrShebang>>

LineHusky == <<<<Word.husky>>>>

LineBlank == <<<<>>>>

LinePaddedHusky == <<<<Ch.sp, Word.other, Ch.sp>>>>

LineMention == <<<<Word.other, Ch.sp, Word.start>>>>

LineStart == <<startMarker>>

LineEnd == <<endMarker>>

SectionOld == <<startMarker, <<Word.old>>, endMarker>>

HookBlocks == {LineShebang, LineHusky, LineBlank, LinePaddedHusky, LineMention,
               LineStart, LineEnd, SectionOld}

RECURSIVE BlockLists(_)
BlockLists(n) ==
    IF n = 0 THEN {<<>>}
    ELSE LET shorter == BlockLists(n - 1)
         IN  shorter \cup {b \o rest : b \in HookBlocks,
                                       rest \in {r \in shorter : TRUE}}

\* a text of these lines, with or without the newline that ends the last one
HookTexts(n) ==
    {JoinLines(ls) : ls \in BlockLists(n)}
        \cup {JoinLines(ls) \o NL : ls \in BlockLists(n)}

HookFiles(n) == {NoFile} \cup {File(d) : d \in HookTexts(n)}

\* what stands beside the post-commit hook: the pre-push hook and .gitignore
SideFiles ==
    { [prePush |-> NoFile, gitignore |-> NoFile],
      [prePush |-> File(JoinLines(LineShebang \o LineHusky)),
       gitignore |-> File(<<Word.other>>)],
      [prePush |-> File(JoinLines(LineShebang \o SectionOld \o LineBlank) \o NL),
       gitignore |-> File(<<Word.tempoDir, Ch.slash>> \o NL)] }

HookRepos(n) ==
    {[postCommit |-> f, prePush |-> s.prePush, gitignore |-> s.gitignore] :
        f \in HookFiles(n), s \in SideFiles}

InitHooks ==
    /\ DetectInit
    /\ world = NoWorld
    /\ ProbeIdle
    /\ repo \in HookRepos(MaxHookBlocks)
    /\ hookLog = <<>>
    /\ pending = NoPending
    /\ savers = <<>>
    /\ syncer = NoSync
    /\ pendingCount = NoCount

NextHooks == Install \/ Uninstall

SpecHooks == InitHooks /\ [][NextHooks]_vars


\* ---- reading a hook file the way the claims do -----------------------------
\* The lines of a text; the newline at its end closes the last line.
TextLines(data) ==
    IF data = <<>> THEN <<>>
    ELSE IF HasSuffix(data, NL) THEN SplitLines(SubSeq(data, 1, Len(data) - 1))
    ELSE SplitLines(data)

IsStartLine(line) == TrimSpace(line) = startMarker

IsEndLine(line) == TrimSpace(line) = endMarker

\* the position of the first end marker line of lines, 0 when there is none
RECURSIVE IndexEndLine(_, _)
IndexEndLine(lines, i) ==
    IF i > Len(lines) THEN 0
    ELSE IF IsEndLine(lines[i]) THEN i ELSE IndexEndLine(lines, i + 1)

\* A Tempo section is a start marker line, the next end marker line and the
\* lines between them.  The foreign lines are the lines outside every section
\* that are not marker lines themselves.
RECURSIVE ForeignLines(_)
ForeignLines(lines) ==
    IF lines = <<>> THEN <<>>
    ELSE IF IsStartLine(Head(lines))
    THEN LET e == IndexEndLine(lines, 2)
         IN  IF e = 0 THEN ForeignLines(Tail(lines))
             ELSE ForeignLines(SubSeq(lines, e + 1, Len(lines)))
    ELSE IF IsEndLine(Head(lines)) THEN ForeignLines(Tail(lines))
    ELSE <<Head(lines)>> \o ForeignLines(Tail(lines))

RECURSIVE SectionCount(_)
SectionCount(lines) ==
    IF lines = <<>> THEN 0
    ELSE IF IsStartLine(Head(lines))
    THEN LET e == IndexEndLine(lines, 2)
         IN  IF e = 0 THEN SectionCount(Tail(lines))
             ELSE 1 + SectionCount(SubSeq(lines, e + 1, Len(lines)))
    ELSE SectionCount(Tail(lines))

\* a occurs in b, in the same relative order
RECURSIVE IsSubsequence(_, _)
IsSubsequence(a, b) ==
    IF a = <<>> THEN TRUE
    ELSE IF b = <<>> THEN FALSE
    ELSE IF Head(a) = Head(b) THEN IsSubsequence(Tail(a), Tail(b))
    ELSE IsSubsequence(a, Tail(b))

HookNames == {"postCommit", "prePush"}

LastCall == hookLog[Len(hookLog)]

After(op) == hookLog /= <<>> /\ LastCall.op = op

AfterTwo(op) ==
    Len(hookLog) >= 2 /\ LastCall.op = op /\ hookLog[Len(hookLog) - 1].op = op

\* ---- C15 ----------------------------------------------------------------
C15_OneMarkerOneSection ==
    After("Install") =>
        \A h \in HookNames :
            /\ repo[h].exists
            /\ CountStr(repo[h].data, startMarker) = 1
            /\ SectionCount(TextLines(repo[h].data)) = 1

C15_SecondCallChangesNothing ==
    (AfterTwo("Install") /\ Len(hookLog) = 2) =>
        \A h \in HookNames : repo[h] = LastCall.before[h]

\* C15: hooks.Install is idempotent: whatever the hook files held before,
\* after one or more consecutive Install calls each hook file holds exactly
\* one Tempo start marker and one Tempo section, and the second call leaves
\* the content the first call produced.
C15_InstallIsIdempotent ==
    C15_OneMarkerOneSection /\ C15_SecondCallChangesNothing

\* C15, what the code keeps: one start marker line and one section after
\* every Install, and no change from the third consecutive call on.
C15_OneMarkerLine ==
    After("Install") =>
        \A h \in HookNames :
            /\ repo[h].exists
            /\ Cardinality({i \in DOMAIN TextLines(repo[h].data) :
                              IsStartLine(TextLines(repo[h].data)[i])}) = 1
            /\ SectionCount(TextLines(repo[h].data)) = 1

C15_ThirdCallChangesNothing ==
    (AfterTwo("Install") /\ Len(hookLog) = 3 /\ hookLog[1].op = "Install") =>
        \A h \in HookNames : repo[h] = LastCall.before[h]

\* C15, the case that breaks it: a foreign hook that ends with an empty line
\* has been installed into twice, and the second call removed the empty line.
C15_SecondCallChanged ==
    /\ AfterTwo("Install") /\ Len(hookLog) = 2
    /\ hookLog[1].before.postCommit = File(JoinLines(LineShebang \o LineHusky \o LineBlank) \o NL)
    /\ repo.postCommit /= LastCall.before.postCommit

\* ---- C16 ----------------------------------------------------------------
\* C16: hooks.Install never loses foreign hook content: every line of a hook
\* file that is outside its Tempo sections before Install is present after
\* Install, in the same relative order, whether the section was appended or
\* an existing one replaced.
C16_InstallKeepsForeignLines ==
    After("Install") =>
        \A h \in HookNames :
            LastCall.before[h].exists =>
                IsSubsequence(ForeignLines(TextLines(LastCall.before[h].data)),
                              TextLines(repo[h].data))

IsBlank(line) == TrimSpace(line) = <<>>

NonBlank(lines) == SelectSeq(lines, LAMBDA l : ~IsBlank(l))

Terminated(lines) ==
    \A i \in DOMAIN lines :
        IsStartLine(lines[i]) => \E j \in (i + 1)..Len(lines) : IsEndLine(lines[j])

\* C16, what the code keeps: when every start marker line of the file has its
\* end marker line, the foreign lines that are not blank are all kept, in order.
C16_KeepsNonBlankOfTerminated ==
    After("Install") =>
        \A h \in HookNames :
            (LastCall.before[h].exists
               /\ Terminated(TextLines(LastCall.before[h].data))) =>
                IsSubsequence(NonBlank(ForeignLines(TextLines(LastCall.before[h].data))),
                              TextLines(repo[h].data))

\* C16, the case that breaks it: the end marker of the section is missing and
\* Install dropped the command that follows the start marker.
C16_UnterminatedLosesContent ==
    /\ After("Install")
    /\ LastCall.before.postCommit = File(JoinLines(LineShebang \o LineStart \o LineHusky) \o NL)
    /\ ~ContainsStr(repo.postCommit.data, <<Word.husky>>)

\* ---- C17 ----------------------------------------------------------------
HasSection(file) == file.exists /\ SectionCount(TextLines(file.data)) > 0

C17_NoMarkerLeft ==
    After("Uninstall") =>
        \A h \in HookNames :
            ~(repo[h].exists /\ ContainsStr(repo[h].data, startMarker))

C17_ForeignLinesKept ==
    After("Uninstall") =>
        \A h \in HookNames :
            (HasSection(LastCall.before[h]) /\ repo[h].exists) =>
                TextLines(repo[h].data) = ForeignLines(TextLines(LastCall.before[h].data))

C17_DeletedWhenNothingLeft ==
    After("Uninstall") =>
        \A h \in HookNames :
            HasSection(LastCall.before[h]) =>
                (~repo[h].exists <=>
                    NonBlank(ForeignLines(TextLines(LastCall.before[h].data)))
                        \in {<<>>, LineShebang})

C17_OthersUntouched ==
    After("Uninstall") =>
        \A h \in HookNames :
            ~HasSection(LastCall.before[h]) => repo[h] = LastCall.before[h]

\* C17: hooks.Uninstall removes the Tempo section and nothing else: afterwards
\* no hook file contains the start marker; the lines outside the section are
\* kept in order; a file left with no content or only the shebang is deleted;
\* a missing file and a file without a Tempo section are left as they were.
C17_UninstallRemovesOnlyTheSection ==
    /\ C17_NoMarkerLeft
    /\ C17_ForeignLinesKept
    /\ C17_DeletedWhenNothingLeft
    /\ C17_OthersUntouched

\* C17, what the code keeps: no start marker line is left, and a file whose
\* text does not contain the marker, or that does not exist, is not touched.
C17_NoMarkerLineLeft ==
    After("Uninstall") =>
        \A h \in HookNames :
            /\ \A i \in DOMAIN TextLines(repo[h].data) :
                   ~IsStartLine(TextLines(repo[h].data)[i])
            /\ (~LastCall.before[h].exists
                  \/ ~ContainsStr(LastCall.before[h].data, startMarker))
               => repo[h] = LastCall.before[h]

\* C17, the case that breaks it: the end marker of the section is missing;
\* Uninstall took the command after the start marker for Tempo's and deleted
\* the file.
C17_UnterminatedDeletesFile ==
    /\ After("Uninstall")
    /\ LastCall.before.postCommit = File(JoinLines(LineShebang \o LineStart \o LineHusky) \o NL)
    /\ ~repo.postCommit.exists

\* ---- C18 ----------------------------------------------------------------
FirstRepo == IF hookLog = <<>> THEN repo ELSE hookLog[1].before

CleanStart ==
    \A h \in HookNames :
        ~ContainsStr(FirstRepo[h].data, startMarker)
            /\ ~ContainsStr(FirstRepo[h].data, endMarker)

\* C18: on a repository whose hook files hold no Tempo marker at first, after
\* any sequence of Install and Uninstall calls IsInstalled is true exactly when
\* the last call was Install; it is false before the first call and after
\* every Uninstall.
C18_IsInstalledFollowsLastCall ==
    CleanStart => (IsInstalled(repo) <=> After("Install"))

\* C18: Install, Uninstall, Install on a repository with a foreign post-commit
\* hook: Tempo is installed again.
C18_Witness ==
    /\ CleanStart
    /\ Len(hookLog) = 3
    /\ hookLog[1].op = "Install" /\ hookLog[2].op = "Uninstall" /\ LastCall.op = "Install"
    /\ FirstRepo.postCommit.exists
    /\ ~IsInstalled(hookLog[3].before)
    /\ IsInstalled(repo)


\* ---------------------------------------------------------------------------
\* internal/sender (config.go:62-193): the queue of pending records.
\*
\* The directory .tempo/pending maps names to files; a file is an inode that
\* holds data, so that a rename moves the inode a writer still has open.  A
\* name is the prefix ".tmp-" or none, a stem (the milliseconds fmt.Sprintf
\* prints with %d, or a word, here a negative number) and the suffix ".json" or another one.  The data
\* of a file is the record that was written into it, whole or not.
\* SavePending runs in a process per commit, Sync and PendingCount in
\* processes of their own; every system call is one step.
\* ---------------------------------------------------------------------------
MaxSavers == 2

MaxSaveTicks == 2

Name(prefix, stem, suffix) == [prefix |-> prefix, stem |-> stem, suffix |-> suffix]

StrTmp == ".tmp-"

StrDotJson == ".json"

\* fmt.Sprintf("%d.json", ms), ".tmp-" + filename
FinalName(ms) == Name("", ms, StrDotJson)

TmpName(ms) == Name(StrTmp, ms, StrDotJson)

NameHasSuffixJson(n) == n.suffix = StrDotJson

NameHasPrefixTmp(n) == n.prefix = StrTmp

\* the data of a file: a record, written completely or not, or no JSON at all;
\* a directory has none
Data(rec, complete) == [kind |-> "file", rec |-> rec, complete |-> complete]

Truncated == Data(0, FALSE)

Garbage == [kind |-> "garbage", rec |-> 0, complete |-> TRUE]

Mixed == [kind |-> "mixed", rec |-> 0, complete |-> TRUE]

Directory == [kind |-> "dir", rec |-> 0, complete |-> TRUE]

\* json.Unmarshal of the data into an Attribution succeeds
Parses(data) == data.kind = "file" /\ data.complete

Names(dir) == DOMAIN dir.names

DataOf(dir, n) == dir.inodes[dir.names[n]]

\* the next unused inode
NewInode(dir) == Len(dir.inodes) + 1

\* the byte order of the names os.ReadDir sorts by: '.' < digits < letters
StemRank(stem) == IF stem >= 0 THEN stem ELSE MaxSaveTicks - stem

NameRank(n) ==
    (IF NameHasPrefixTmp(n) THEN 0 ELSE 2 * (MaxSaveTicks + 3))
        + 2 * StemRank(n.stem) + (IF NameHasSuffixJson(n) THEN 0 ELSE 1)

RECURSIVE SortNames(_)
SortNames(S) ==
    IF S = {} THEN <<>>
    ELSE LET first == CHOOSE n \in S : \A m \in S : NameRank(n) <= NameRank(m)
         IN  <<first>> \o SortNames(S \ {first})

\* os.ReadDir: the entries by name, each with the type it had when listed
ReadDirPending(dir) ==
    LET sorted == SortNames(Names(dir))
    IN  [i \in 1..Len(sorted) |->
            [name |-> sorted[i], isDir |-> DataOf(dir, sorted[i]).kind = "dir"]]

\* ---- SavePending ---------------------------------------------------------
IdleSaver == [pc |-> "idle"]

\* config.go:80-92: the directory is made, the record marshalled, the names
\* taken from the clock
SaveBegin(F) ==
    \E w \in F.savers :
        /\ savers[w].pc = "idle"
        /\ savers' = [savers EXCEPT ![w] =
               [pc |-> "named", rec |-> w, ms |-> UnixMilli(now),
                fd |-> 0, err |-> FALSE, late |-> FALSE]]
        /\ pending' = MkdirAll(pending)
        /\ UNCHANGED <<detVars, probeVars, fsVars, syncer, pendingCount>>

\* os.WriteFile, first half: open with O_CREATE|O_TRUNC.  An existing file of
\* that name is emptied, not replaced.
SaveOpen ==
    \E w \in DOMAIN savers :
        /\ savers[w].pc = "named"
        /\ LET tmp == TmpName(savers[w].ms)
           IN  IF tmp \in Names(pending)
               THEN /\ pending' = [pending EXCEPT !.inodes[pending.names[tmp]] = Truncated]
                    /\ savers' = [savers EXCEPT ![w].pc = "opened",
                                                ![w].fd = pending.names[tmp]]
               ELSE /\ pending' = [pending EXCEPT
                           !.inodes = Append(pending.inodes, Truncated),
                           !.names = [n \in Names(pending) \cup {tmp} |->
                                         IF n = tmp THEN NewInode(pending)
                                         ELSE pending.names[n]]]
                    /\ savers' = [savers EXCEPT ![w].pc = "opened",
                                                ![w].fd = NewInode(pending)]
        /\ UNCHANGED <<detVars, probeVars, fsVars, syncer, pendingCount>>

\* what a write at offset 0 leaves in the file: the record, or, over the
\* record another writer put there since the file was emptied, the record
\* with or without the other one's tail
WriteOutcomes(old, rec) ==
    IF old = Truncated \/ old.rec = rec THEN {Data(rec, TRUE)}
    ELSE {Data(rec, TRUE), Mixed}

\* os.WriteFile, second half: write the data and close
SaveWrite ==
    \E w \in DOMAIN savers :
        /\ savers[w].pc = "opened"
        /\ \E data \in WriteOutcomes(pending.inodes[savers[w].fd], savers[w].rec) :
               pending' = [pending EXCEPT !.inodes[savers[w].fd] = data]
        /\ savers' = [savers EXCEPT ![w].pc = "written"]
        /\ UNCHANGED <<detVars, probeVars, fsVars, syncer, pendingCount>>

\* os.Rename(tmpPath, finalPath): the name moves, replacing a file that has
\* the final name; it fails when the temporary name is gone
SaveRename ==
    \E w \in DOMAIN savers :
        /\ savers[w].pc = "written"
        /\ LET tmp == TmpName(savers[w].ms)
               final == FinalName(savers[w].ms)
           IN  IF tmp \in Names(pending)
               THEN /\ pending' = [pending EXCEPT
                           !.names = [n \in (Names(pending) \ {tmp}) \cup {final} |->
                                         IF n = final THEN pending.names[tmp]
                                         ELSE pending.names[n]]]
                    /\ savers' = [savers EXCEPT ![w].pc = "done",
                                                ![w].late = syncer.pc /= "idle"]
               ELSE /\ pending' = pending
                    /\ savers' = [savers EXCEPT ![w].pc = "done", ![w].err = TRUE]
        /\ UNCHANGED <<detVars, probeVars, fsVars, syncer, pendingCount>>

\* ---- PendingCount --------------------------------------------------------
CountedNames(entries) ==
    {entries[i].name : i \in {j \in DOMAIN entries :
        /\ ~entries[j].isDir
        /\ NameHasSuffixJson(entries[j].name)
        /\ ~NameHasPrefixTmp(entries[j].name)}}

PendingCount ==
    /\ ~pendingCount.done
    /\ pendingCount' =
          IF ~pending.exists
          THEN [done |-> TRUE, count |-> 0, names |-> {}, partial |-> {}]
          ELSE LET names == CountedNames(ReadDirPending(pending))
               IN  [done |-> TRUE, count |-> Cardinality(names), names |-> names,
                    partial |-> {n \in names : ~DataOf(pending, n).complete}]
    /\ UNCHANGED <<detVars, probeVars, fsVars, pending, savers, syncer>>

\* ---- Sync ----------------------------------------------------------------
Config(loadErr, token) == [loadErr |-> loadErr, APIToken |-> token]

SyncDone(resp) ==
    [pc |-> "done", resp |-> resp, entries |-> <<>>, i |-> 0,
     attributions |-> <<>>, filePaths |-> <<>>, readPartial |-> {},
     removed |-> <<>>]

\* config.go:120-132: the configuration is loaded and the directory listed
SyncBegin(F) ==
    /\ syncer.pc = "idle"
    /\ \E cfg \in F.configs :
          syncer' =
             IF cfg.loadErr \/ cfg.APIToken = "" THEN SyncDone("offline")
             ELSE IF ~pending.exists THEN SyncDone("nodir")
             ELSE [SyncDone("none") EXCEPT !.pc = "reading", !.i = 1,
                                           !.entries = ReadDirPending(pending)]
    /\ UNCHANGED <<detVars, probeVars, fsVars, pending, savers, pendingCount>>

\* config.go:137-159: one turn of the loop over the entries, and the test
\* after the last one
SyncRead ==
    /\ syncer.pc = "reading"
    /\ IF syncer.i > Len(syncer.entries)
       THEN syncer' = IF syncer.attributions = <<>>
                      THEN [syncer EXCEPT !.pc = "done"]
                      ELSE [syncer EXCEPT !.pc = "sending"]
       ELSE LET entry == syncer.entries[syncer.i]
                next  == [syncer EXCEPT !.i = syncer.i + 1]
            IN  IF entry.isDir \/ ~NameHasSuffixJson(entry.name) THEN syncer' = next
                ELSE IF NameHasPrefixTmp(entry.name) THEN syncer' = next
                ELSE IF entry.name \notin Names(pending) THEN syncer' = next
                ELSE LET data == DataOf(pending, entry.name)
                     IN  IF data.kind = "dir" THEN syncer' = next
                         ELSE IF ~Parses(data)
                         THEN syncer' = [next EXCEPT !.readPartial =
                                  IF data.complete THEN @ ELSE @ \cup {entry.name}]
                         ELSE syncer' = [next EXCEPT
                                  !.attributions = Append(@, data.rec),
                                  !.filePaths = Append(@, entry.name)]
    /\ UNCHANGED <<detVars, probeVars, fsVars, pending, savers, pendingCount>>

Responses == {"2xx", "non2xx", "unreachable"}

\* config.go:161-191: the request and its answer
SyncSend ==
    /\ syncer.pc = "sending"
    /\ \E resp \in Responses :
          syncer' = IF resp = "2xx"
                    THEN [syncer EXCEPT !.pc = "removing", !.resp = resp, !.i = 1]
                    ELSE [syncer EXCEPT !.pc = "done", !.resp = resp]
    /\ UNCHANGED <<detVars, probeVars, fsVars, pending, savers, pendingCount>>

\* config.go:186-188: one os.Remove of the loop over filePaths
SyncRemove ==
    /\ syncer.pc = "removing"
    /\ IF syncer.i > Len(syncer.filePaths)
       THEN /\ syncer' = [syncer EXCEPT !.pc = "done"]
            /\ pending' = pending
       ELSE LET p == syncer.filePaths[syncer.i]
            IN  IF p \in Names(pending)
                THEN /\ pending' = [pending EXCEPT
                            !.names = [n \in Names(pending) \ {p} |-> pending.names[n]]]
                     /\ syncer' = [syncer EXCEPT !.i = syncer.i + 1,
                            !.removed = Append(@, [name |-> p,
                                                   data |-> DataOf(pending, p)])]
                ELSE /\ pending' = pending
                     /\ syncer' = [syncer EXCEPT !.i = syncer.i + 1]
    /\ UNCHANGED <<detVars, probeVars, fsVars, savers, pendingCount>>

\* the clock of time.Now()
Tick ==
    /\ now < MaxSaveTicks
    /\ now' = now + 1
    /\ UNCHANGED <<detVars, maxAge, probe, fsVars, cfgVars>>

\* ---- environments -------------------------------------------------------
\* what the directory holds besides records: a file that is no JSON, a
\* temporary file left behind, a directory with a record's name, notes
WordX == 0 - 1

WordD == 0 - 2

JunkNames ==
    <<Name("", WordX, StrDotJson), Name(StrTmp, WordX, StrDotJson),
      Name("", WordD, StrDotJson), Name("", WordX, ".txt")>>

JunkDir ==
    [exists |-> TRUE,
     names  |-> [n \in {JunkNames[i] : i \in 1..4} |->
                    CHOOSE i \in 1..4 : JunkNames[i] = n],
     inodes |-> <<Garbage, Garbage, Directory, Garbage>>]

EmptyDir == [exists |-> TRUE, names |-> <<>>, inodes |-> <<>>]

PendingDirs == {NoPending, EmptyDir, JunkDir}

Configs == {Config(TRUE, ""), Config(FALSE, ""), Config(FALSE, "tpo")}

Sender == [savers |-> 1..MaxSavers, configs |-> Configs]

InitPending ==
    /\ DetectInit
    /\ world = NoWorld
    /\ ProbeIdle
    /\ repo = NoHooks
    /\ hookLog = <<>>
    /\ pending \in PendingDirs
    /\ savers = [w \in 1..MaxSavers |-> IdleSaver]
    /\ syncer = NoSync
    /\ pendingCount = NoCount

NextPending ==
    \/ SaveBegin(Sender)
    \/ SaveOpen
    \/ SaveWrite
    \/ SaveRename
    \/ PendingCount
    \/ SyncBegin(Sender)
    \/ SyncRead
    \/ SyncSend
    \/ SyncRemove
    \/ Tick

SpecPending == InitPending /\ [][NextPending]_vars


\* ---- C19 ----------------------------------------------------------------
Range(s) == {s[i] : i \in DOMAIN s}

SyncStarted == syncer.pc /= "idle"

Removed == IF SyncStarted THEN Range(syncer.removed) ELSE {}

\* the record a removed file held was part of the request
WasSent(r) ==
    r.data.kind = "file" /\ r.data.complete /\ r.data.rec \in Range(syncer.attributions)

\* the SavePending calls whose rename came after Sync had listed the directory
LateSavers ==
    {w \in DOMAIN savers : savers[w].pc = "done" /\ savers[w].late /\ ~savers[w].err}

C19_OnlyAfterSuccess == Removed /= {} => syncer.resp = "2xx"

C19_ExactlyTheSent ==
    /\ \A r \in Removed : WasSent(r)
    /\ (SyncStarted /\ syncer.pc = "done" /\ syncer.resp = "2xx")
           => {r.name : r \in Removed} = Range(syncer.filePaths)

C19_LateFilesStay ==
    \A w \in LateSavers : \A r \in Removed : r.data.rec /= w

\* C19: Sync deletes pending files only after a 2xx response, and then exactly
\* the files whose records were in the request; without a token, on a failed
\* request and on a non-2xx response every pending file stays; a file written
\* after Sync listed the directory is never deleted by that Sync.
C19_SyncDeletesOnlyWhatItSent ==
    C19_OnlyAfterSuccess /\ C19_ExactlyTheSent /\ C19_LateFilesStay

\* no two SavePending calls took the same milliseconds for their file names
DistinctNames ==
    \A v, w \in DOMAIN savers :
        (v /= w /\ savers[v].pc /= "idle" /\ savers[w].pc /= "idle")
            => savers[v].ms /= savers[w].ms

\* C19, what the code keeps: the claim, as long as no two records get the
\* same file name.
C19_HoldsForDistinctNames == DistinctNames => C19_SyncDeletesOnlyWhatItSent

\* C19, a Sync that did its work: two records sent, both files deleted.
C19_TwoSentTwoDeleted ==
    /\ SyncStarted /\ syncer.pc = "done" /\ syncer.resp = "2xx"
    /\ Len(syncer.attributions) = 2
    /\ Cardinality(Removed) = 2

\* C19, the case that breaks it: a record saved in the millisecond of a
\* record Sync had already read took its file name, and Sync deleted it.
C19_UnsentRecordDeleted ==
    \E w \in LateSavers : \E r \in Removed :
        r.data.rec = w /\ w \notin Range(syncer.attributions)

\* ---- C20 ----------------------------------------------------------------
C20_NothingPartialCounted == pendingCount.done => pendingCount.partial = {}

C20_NothingPartialRead == SyncStarted => syncer.readPartial = {}

C20_TmpIgnored ==
    /\ pendingCount.done => \A n \in pendingCount.names : ~NameHasPrefixTmp(n)
    /\ SyncStarted => \A n \in Range(syncer.filePaths) : ~NameHasPrefixTmp(n)

C20_VisibleThroughRename ==
    \A n \in Names(pending) :
        (~NameHasPrefixTmp(n) /\ n.stem >= 0) =>
            \E w \in DOMAIN savers :
                savers[w].pc = "done" /\ ~savers[w].err /\ savers[w].ms = n.stem

\* C20: SavePending is atomic for the readers: however its steps interleave
\* with PendingCount and Sync, no reader counts, parses or sends a record file
\* that is partly written; both readers ignore the ".tmp-" file and a record
\* shows up only through the rename.
C20_SavePendingIsAtomic ==
    /\ C20_NothingPartialCounted
    /\ C20_NothingPartialRead
    /\ C20_TmpIgnored
    /\ C20_VisibleThroughRename

\* C20, what the code keeps: the claim, as long as no two records get the
\* same file name.
C20_HoldsForDistinctNames == DistinctNames => C20_SavePendingIsAtomic

\* C20, the case that breaks it: two SavePending calls in one millisecond
\* share the temporary file; the second emptied it, the first renamed it, and
\* PendingCount counted the empty record file.
C20_PartialFileCounted ==
    /\ pendingCount.done
    /\ pendingCount.partial /= {}
    /\ ~DistinctNames


-----------------------------------------------------------------------------
(* The token sum of parseCursorBubbles.                                     *)

\* the row is one the query returns and the loop can decode
ReturnedRow(r) ==
    /\ r.parses
    /\ QuotedWords(r) \cap cursorQueryNames # {}

\* the row passes the write-tool, status and decision filters of lines 301-313
KeptRow(r) ==
    /\ ReturnedRow(r)
    /\ r.ToolFormerData # NoToolFormer
    /\ r.ToolFormerData.Name \in cursorWriteTools
    /\ Accepted(r)

RowTokens(r) ==
    IF r.TokenCount = NoTokenCount THEN 0
    ELSE r.TokenCount.InputTokens + r.TokenCount.OutputTokens

RECURSIVE TokenSum(_)
TokenSum(rows) ==
    IF rows = <<>> THEN 0
    ELSE RowTokens(Head(rows)) + TokenSum(Tail(rows))

\* the rows of the composers whose query succeeded, in the order of the call
QueriedRows ==
    (IF probe.in.bubbles["c1"].queryErr THEN <<>> ELSE probe.in.bubbles["c1"].rows)
        \o (IF probe.in.bubbles["c2"].queryErr THEN <<>> ELSE probe.in.bubbles["c2"].rows)

BubblesReturned ==
    probe.reader = "parseCursorBubbles" /\ probe.out.session # NoSession

\* C21: the TotalTokens parseCursorBubbles returns is the sum of inputTokens +
\* outputTokens over exactly the rows that pass the write-tool, "completed"
\* and not-"rejected" filters; rejected rows, rows that are not completed and
\* rows of other tools add no tokens.
C21_TokensOfKeptRowsOnly ==
    BubblesReturned =>
        probe.out.session.TotalTokens = TokenSum(SelectSeq(QueriedRows, KeptRow))

\* C21, what the code does: the tokens of every row the query returns and
\* json.Unmarshal decodes are summed, before the filters are applied.
C21_TokensOfReturnedRows ==
    BubblesReturned =>
        probe.out.session.TotalTokens = TokenSum(SelectSeq(QueriedRows, ReturnedRow))

\* C21, the case that breaks it: one rejected edit next to a kept one; the
\* tokens of both are in the sum.
C21_RejectedRowCounted ==
    /\ BubblesReturned
    /\ probe.in.bubbles["c1"].rows
          = <<EditBubble("edit_file", "completed", "rejected", PathA)>>
    /\ ~probe.in.bubbles["c2"].queryErr
    /\ probe.out.session.TotalTokens > TokenSum(SelectSeq(QueriedRows, KeptRow))


-----------------------------------------------------------------------------
(* detectAider against headings whose remainder holds blanks and tabs.      *)

MaxRemainder == 3

\* a letter, a space, a tab
RemainderBytes == {Ch.a, Ch.sp, 9}

\* the lines of a history: any remainder, after the heading marker or not
AiderLines(n) ==
    LET rems == UNION {[1..k -> RemainderBytes] : k \in 0..n}
    IN  rems \cup {StrHeading \o r : r \in rems}

\* fresh histories of one line and of two
AiderHistories(n) ==
    {HistoryFile(TRUE, FALSE, FALSE, Horizon, <<l>>, FALSE) : l \in AiderLines(n)}
        \cup {HistoryFile(TRUE, FALSE, FALSE, Horizon, <<l, m>>, FALSE) :
                 l \in AiderLines(n), m \in AiderLines(n)}

NextAider == DetectAider([histories |-> AiderHistories(MaxRemainder)])

SpecAider == InitCopilot /\ [][NextAider]_vars

AiderFilesOut ==
    IF probe.out.session = NoSession THEN {} ELSE probe.out.session.FilesWritten

\* the trimmed remainders of the heading lines of the history that was read
Candidates ==
    {TrimSpace(TrimPrefix(probe.in.lines[i], StrHeading)) :
        i \in {j \in DOMAIN probe.in.lines : HasPrefix(probe.in.lines[j], StrHeading)}}

HasWhitespace(s) == \E i \in DOMAIN s : IsSpace(s[i])

\* C22: detectAider adds the trimmed remainder of a heading line to the file
\* set only if it is non-empty and holds no whitespace character of any kind
\* (space, tab or other); a path named twice is one entry; the reader returns
\* absent when no path is collected.
C22_NoWhitespaceInPaths ==
    probe.reader = "detectAider" =>
        /\ AiderFilesOut = {c \in Candidates : c # <<>> /\ ~HasWhitespace(c)}
        /\ (probe.out.session = NoSession <=> AiderFilesOut = {})

\* C22, what the code does: only the space character is looked for.
C22_NoSpaceInPaths ==
    probe.reader = "detectAider" =>
        /\ AiderFilesOut = {c \in Candidates : c # <<>> /\ ~Contains(c, Ch.sp)}
        /\ (probe.out.session = NoSession <=> AiderFilesOut = {})

\* C22, the case that breaks it: the heading "#### a<TAB>a" gives a path
\* with a tab in it.
C22_TabInPath ==
    /\ probe.reader = "detectAider"
    /\ probe.in.lines = <<StrHeading \o <<Ch.a, 9, Ch.a>>>>
    /\ AiderFilesOut = {<<Ch.a, 9, Ch.a>>}


-----------------------------------------------------------------------------
(* C23: the paths parseClaudeSession collects                              *)

MaxFpLen == 5
Dot == Ch.dot

\* the bytes of the tool's file_path: "/", "r", "a", "."
FpBytes == {Slash, 114, Ch.a, Dot}

\* an assistant line with one tool call
ToolLine(name, fp) ==
    LogLine(TRUE, TRUE, "assistant", Stamp(1000), "m1", 5,
            <<ContentItem("tool_use", name, fp)>>)

\* a user line that quotes an edit, an assistant line with text only, a line
\* json.Unmarshal rejects, an edit of a file of the repository
SideLines ==
    {LogLine(TRUE, TRUE, "user", Stamp(1000), "", 0,
             <<ContentItem("tool_use", "Edit", InRepo(PathB))>>),
     LogLine(TRUE, TRUE, "assistant", Stamp(1000), "m1", 5,
             <<ContentItem("text", "", <<>>)>>),
     LogLine(TRUE, FALSE, "", NoStamp, "", 0, <<>>),
     ToolLine("Write", InRepo(PathC))}

ToolLines(n) ==
    {ToolLine(name, fp) : name \in {"Edit", "Write", "Read"},
                          fp \in Texts(FpBytes, n)}

PathLogs(n) ==
    {LogFile(FALSE, <<l>>, FALSE) : l \in ToolLines(n)}
    \cup {LogFile(FALSE, <<s, l>>, FALSE) : s \in SideLines, l \in ToolLines(n)}

NextClaudePaths == ParseClaudeSession([logs |-> PathLogs(MaxFpLen)])

SpecClaudePaths == InitCopilot /\ [][NextClaudePaths]_vars

RECURSIVE Segments(_)
\* the components of a path, split at "/"
Segments(s) ==
    LET i == IndexByte(s, Slash, 1) IN
    IF i = 0 THEN <<s>>
    ELSE <<SubSeq(s, 1, i - 1)>> \o Segments(SubSeq(s, i + 1, Len(s)))

RECURSIVE Resolve(_, _)
\* the components left after "", "." and ".." are resolved
Resolve(segs, stack) ==
    IF segs = <<>> THEN stack
    ELSE LET h == Head(segs) IN
         IF h = <<>> \/ h = <<Dot>> THEN Resolve(Tail(segs), stack)
         ELSE IF h = <<Dot, Dot>>
         THEN Resolve(Tail(segs),
                      IF stack = <<>> THEN <<>>
                      ELSE SubSeq(stack, 1, Len(stack) - 1))
         ELSE Resolve(Tail(segs), Append(stack, h))

\* the absolute path fp names a file below the directory root
LiesUnder(fp, root) ==
    /\ HasPrefix(fp, <<Slash>>)
    /\ LET p == Resolve(Segments(fp), <<>>)
           r == Resolve(Segments(root), <<>>)
       IN Len(p) > Len(r) /\ SubSeq(p, 1, Len(r)) = r

ClaudeParsed == probe.reader = "parseClaudeSession"

\* the file paths of the Edit and Write calls on the log's assistant lines
EditWritePaths(file) ==
    UNION {{c.FilePath :
              c \in {d \in {file.lines[i].Content[j] :
                               j \in DOMAIN file.lines[i].Content} :
                        d.Type = "tool_use" /\ d.Name \in {"Edit", "Write"}}} :
           i \in {k \in DOMAIN file.lines :
                    /\ file.lines[k].hasKey /\ file.lines[k].parses
                    /\ file.lines[k].Type = "assistant"}}

ClaudeFilesOut ==
    IF probe.out.session = NoSession THEN {}
    ELSE probe.out.session.FilesWritten

\* C23: every collected path is the repository-relative form of an Edit or
\* Write path that lies under the repository root, every collected path is
\* non-empty and relative, and the reader returns absent exactly when it
\* collected nothing
C23_OnlyPathsUnderRepoRoot ==
    ClaudeParsed =>
        /\ \A p \in ClaudeFilesOut :
              /\ \E fp \in EditWritePaths(probe.in) :
                    /\ LiesUnder(fp, StrRepoRoot)
                    /\ fp = StrRepoRoot \o <<Slash>> \o p
              /\ p # <<>>
              /\ ~HasPrefix(p, <<Slash>>)
        /\ (probe.out.session = NoSession) <=> (ClaudeFilesOut = {})

\* C23, what the code does: a path is collected exactly when it starts with
\* the bytes of the repository root and a "/", whatever follows
C23_PathsWithRootPrefix ==
    ClaudeParsed =>
        /\ ClaudeFilesOut =
              {TrimPrefix(fp, StrRepoRoot \o <<Slash>>) :
                  fp \in {q \in EditWritePaths(probe.in) :
                             HasPrefix(q, StrRepoRoot \o <<Slash>>)}}
        /\ (probe.out.session = NoSession) <=> (ClaudeFilesOut = {})

\* an Edit of the repository root itself, written with a trailing "/", is
\* collected as the empty path
C23_EmptyPathCollected ==
    /\ ClaudeParsed
    /\ EditWritePaths(probe.in) = {StrRepoRoot \o <<Slash>>}
    /\ ClaudeFilesOut = {<<>>}

\* an Edit of the repository's parent directory is collected as ".."
C23_ParentCollected ==
    /\ ClaudeParsed
    /\ EditWritePaths(probe.in) = {StrRepoRoot \o <<Slash, Dot, Dot>>}
    /\ ClaudeFilesOut = {<<Dot, Dot>>}


-----------------------------------------------------------------------------
(* C24: the session duration of parseClaudeSession                         *)

MaxLogLines == 3

\* an assistant line that edits a file of the repository
TimedEdit(stamp) ==
    LogLine(TRUE, TRUE, "assistant", stamp, "m1", 5,
            <<ContentItem("tool_use", "Edit", InRepo(PathA))>>)

\* assistant lines without a timestamp, with one time.Parse rejects, with the
\* zero instant, with an instant before it and with three instants after it,
\* in milliseconds; a user line, a line json.Unmarshal rejects and a line
\* without the word "assistant"
TimeLines ==
    {TimedEdit(s) : s \in {NoStamp, BadStamp, Stamp(ZeroTime), Stamp(0 - 3000),
                           Stamp(1500), Stamp(3000), Stamp(6200)}}
    \cup {LogLine(TRUE, TRUE, "user", Stamp(9000), "", 0, <<>>),
          LogLine(TRUE, FALSE, "assistant", Stamp(9000), "", 0, <<>>),
          LogLine(FALSE, TRUE, "system", Stamp(9000), "", 0, <<>>)}

TimeLogs(n) ==
    {LogFile(FALSE, lines, FALSE) :
        lines \in UNION {[1..k -> TimeLines] : k \in 0..n}}

NextClaudeTimes == ParseClaudeSession([logs |-> TimeLogs(MaxLogLines)])

SpecClaudeTimes == InitCopilot /\ [][NextClaudeTimes]_vars

\* the instants of the assistant lines whose timestamp parses, in file order
AssistantStamps(file) ==
    LET timed(l) == /\ l.hasKey /\ l.parses /\ l.Type = "assistant"
                    /\ l.Timestamp.text /\ l.Timestamp.ok
        kept == SelectSeq(file.lines, timed)
    IN [i \in DOMAIN kept |-> kept[i].Timestamp.t]

\* int64(d.Seconds()) of a duration of ms milliseconds
WholeSeconds(ms) == IF ms >= 0 THEN ms \div 1000 ELSE 0 - ((0 - ms) \div 1000)

ClaudeSessionOut == ClaudeParsed /\ probe.out.session # NoSession

-----------------------------------------------------------------------------
(* C25: what detectCopilot merges                                          *)

\* edits without a model, over three seconds; a long chat without edits
EditsNoModel == SessionFile(FALSE, TRUE, "",
                            <<Request(0, "", <<Edit(PathA)>>), Request(3500, "", <<>>)>>)
ChatLong == SessionFile(FALSE, TRUE, "",
                        <<Request(0, "m2", <<RespPart("markdownContent", NoURI)>>),
                          Request(3500, "m2", <<>>)>>)

MergeFiles == {Malformed, EditsA, EditsBC, ChatOnly, EditsNoModel, ChatLong}

\* a session file changed before or after the cutoff
MergeEntryKinds ==
    {[isDir |-> FALSE, infoErr |-> FALSE, modTime |-> t] :
        t \in {Horizon - 4, Horizon - 2}}

MergeWorkspaces(n) ==
    UNION {{[found |-> TRUE, chatSessions |-> ListingOf(kindOf, contentOf)] :
               kindOf \in [S -> MergeEntryKinds],
               contentOf \in [S -> MergeFiles]} :
           S \in {T \in SUBSET SessionNames : Cardinality(T) <= n}}

NextCopilotMerge ==
    DetectCopilot([workspaces |-> MergeWorkspaces(MaxSessionFiles)])

SpecCopilotMerge == InitCopilot /\ [][NextCopilotMerge]_vars

\* the recent session files that record an edit of a file of the
\* repository, in the order of the directory listing
Contributing ==
    LET recent(e) == /\ ~e.isDir /\ ~e.infoErr /\ e.modTime >= Cutoff
                     /\ EditedFiles(e.content) # {}
    IN SelectSeq(probe.in.chatSessions.entries, recent)

\* what parseCopilotSession makes of each of them
PerFile ==
    [i \in DOMAIN Contributing |->
        parseCopilotSession(Contributing[i].content, StrRepoRoot).session]

\* C25: the merged file set is the union of the per-file sets, the model is
\* that of the last file in processing order with a non-empty model, the
\* duration is the maximum of the per-file durations; files without an edit
\* of the repository contribute nothing
C25_MergeOfPerFileResults ==
    (probe.reader = "detectCopilot" /\ probe.in.found) =>
        LET named(s) == s.Model # ""
            withModel == SelectSeq(PerFile, named)
        IN IF PerFile = <<>> THEN probe.out = ReaderResult(NoSession, FALSE)
           ELSE /\ ~probe.out.err
                /\ probe.out.session.FilesWritten =
                      UNION {PerFile[i].FilesWritten : i \in DOMAIN PerFile}
                /\ probe.out.session.Model =
                      IF withModel = <<>> THEN ""
                      ELSE withModel[Len(withModel)].Model
                /\ \A i \in DOMAIN PerFile :
                      PerFile[i].SessionDurationSec
                          <= probe.out.session.SessionDurationSec
                /\ probe.out.session.SessionDurationSec
                      \in {0} \cup {PerFile[i].SessionDurationSec :
                                       i \in DOMAIN PerFile}

\* three recent files: edits served by m2, then edits served by gpt over two
\* seconds, then a chat of three seconds without edits
C25_Witness ==
    /\ probe.reader = "detectCopilot"
    /\ Len(probe.in.chatSessions.entries) = 3
    /\ \A i \in 1..3 : probe.in.chatSessions.entries[i].modTime >= Cutoff
    /\ probe.in.chatSessions.entries[1].content = EditsBC
    /\ probe.in.chatSessions.entries[2].content = EditsA
    /\ probe.in.chatSessions.entries[3].content = ChatLong
    /\ probe.out = ReaderResult(SessionInfo(ToolCopilot, {PathA, PathB, PathC},
                                            "gpt", 0, 2), FALSE)


-----------------------------------------------------------------------------
(* C26: detectProcesses                                                    *)

RECURSIVE pgrepCalls(_, _, _)
\* process.go lines 29-37: the names the loop runs pgrep -x for
pgrepCalls(visit, running, seen) ==
    IF visit = <<>> THEN <<>>
    ELSE LET name == Head(visit)
             tool == processNames[name]
         IN IF tool \in seen THEN pgrepCalls(Tail(visit), running, seen)
            ELSE <<name>> \o pgrepCalls(Tail(visit), running,
                                IF name \in running THEN seen \cup {tool}
                                ELSE seen)

\* running: the names pgrep -x exits with 0 for; visit: the order of the
\* range over processNames
DetectProcesses(F) ==
    /\ probe.reader = "none"
    /\ \E goos \in F.goos, running \in F.running :
       \E visit \in Enumerations(DOMAIN processNames) :
          probe' = Probe("detectProcesses",
                         [goos |-> goos, running |-> running, visit |-> visit],
                         [detected |-> detectProcesses(goos, visit, running),
                          checked |-> IF goos = "windows" THEN <<>>
                                      ELSE pgrepCalls(visit, running, {})])
    /\ UNCHANGED <<nonProbeVars, now, maxAge>>

NextProcesses ==
    DetectProcesses([goos |-> {"linux", "windows"}, running |-> RunningSets])

SpecProcesses == InitCopilot /\ [][NextProcesses]_vars

ProcessesProbed == probe.reader = "detectProcesses"

\* C26: no tool is returned twice; off Windows the tools returned are those
\* with a running name; no name is checked after a name of the same tool has
\* matched; on Windows nothing is returned and nothing is checked
C26_EachRunningToolOnce ==
    ProcessesProbed =>
        LET d == probe.out.detected
            c == probe.out.checked
        IN /\ \A i, j \in DOMAIN d : d[i] = d[j] => i = j
           /\ probe.in.goos # "windows" =>
                 ToSetOfSeq(d) = {processNames[n] : n \in probe.in.running}
           /\ \A i, j \in DOMAIN c :
                 (i < j /\ processNames[c[i]] = processNames[c[j]])
                     => c[i] \notin probe.in.running
           /\ probe.in.goos = "windows" => d = <<>> /\ c = <<>>

\* both names of Cursor run, "cursor" is visited first: Cursor is returned
\* once and "Cursor" is not checked
C26_Witness ==
    /\ ProcessesProbed
    /\ probe.in.goos = "linux"
    /\ probe.in.running = {"Cursor", "cursor"}
    /\ probe.out.detected = <<ToolCursor>>
    /\ "cursor" \in ToSetOfSeq(probe.out.checked)
    /\ "Cursor" \notin ToSetOfSeq(probe.out.checked)

\* on Windows nothing is returned although two tools run
C26_WitnessWindows ==
    /\ ProcessesProbed
    /\ probe.in.goos = "windows"
    /\ probe.in.running = {"claude", "aider"}
    /\ probe.out.detected = <<>>


-----------------------------------------------------------------------------
(* C27: the fields of the Detections Detect returns                        *)

-----------------------------------------------------------------------------
(* C28: the session duration of detectCursor                               *)

\* createdAt and lastUpdatedAt in milliseconds; createdAt is 0 when the
\* index entry has none
SpanEntries ==
    {ComposerHead("c1", c, u) : c \in {0, 1000, 2000, 5000},
                                u \in {4000, 6000, 9000}}

SpanLists(n) == UNION {[1..k -> SpanEntries] : k \in 1..n}

\* part_002 lines 437-449 on the retained entries of the session index
ComposerSpan(F) ==
    /\ probe.reader = "none"
    /\ \E composers \in F.composers :
          probe' = Probe("composerSpan", composers, composerSpan(composers, 0, 0))
    /\ UNCHANGED <<nonProbeVars, now, maxAge>>

NextSpan == ComposerSpan([composers |-> SpanLists(MaxComposers)])

SpecSpan == InitCopilot /\ [][NextSpan]_vars

SpanProbed == probe.reader = "composerSpan"

\* the orders the same entries may have in the index
Reorderings(seq) ==
    {[i \in DOMAIN seq |-> seq[p[i]]] :
        p \in {q \in [DOMAIN seq -> DOMAIN seq] :
                  \A i, j \in DOMAIN seq : q[i] = q[j] => i = j}}

MinOf(S) == CHOOSE x \in S : \A y \in S : x <= y
MaxOf(S) == CHOOSE x \in S : \A y \in S : y <= x

\* C28: the duration is the same for every order of the retained entries,
\* and it is never negative
C28_OrderIndependent ==
    SpanProbed =>
        /\ \A other \in Reorderings(probe.in) :
              composerSpan(other, 0, 0) = probe.out
        /\ probe.out >= 0

\* C28, what the code guarantees: when every entry has a createdAt above 0
\* the duration is latest lastUpdatedAt minus earliest createdAt in whole
\* seconds (0 when that is not positive), in every order; it is never
\* negative
C28_OrderIndependentWhenCreatedSet ==
    SpanProbed =>
        /\ probe.out >= 0
        /\ (\A i \in DOMAIN probe.in : probe.in[i].CreatedAt > 0) =>
              LET lo == MinOf({probe.in[i].CreatedAt : i \in DOMAIN probe.in})
                  hi == MaxOf({probe.in[i].LastUpdatedAt : i \in DOMAIN probe.in})
              IN /\ probe.out = IF hi > lo THEN (hi - lo) \div 1000 ELSE 0
                 /\ \A other \in Reorderings(probe.in) :
                       composerSpan(other, 0, 0) = probe.out

\* an entry without createdAt after one with it: no duration is reported,
\* while the other order gives four seconds
C28_MissingCreatedAtLast ==
    /\ SpanProbed
    /\ probe.in = <<ComposerHead("c1", 5000, 9000), ComposerHead("c1", 0, 9000)>>
    /\ probe.out = 0
    /\ composerSpan(<<probe.in[2], probe.in[1]>>, 0, 0) = 4


-----------------------------------------------------------------------------
(* C29: the query of parseCursorBubbles and cursorWriteTools               *)

\* the path a row of the tool writes
PathOfTool(name) ==
    CASE name \in {"edit_file", "read_file"} -> PathA
      [] name \in {"write", "write_file"} -> PathB
      [] OTHER -> PathC

\* rows of every write tool and of a read tool, completed or cancelled,
\* undecided or rejected; a row of "write" whose text quotes "write_file"
TableRows ==
    {Bubble(TRUE, TokenCount(3, 4),
            ToolFormer(name, status, decision, Params(PathOfTool(name)), NoArgs), {}) :
        name \in cursorWriteTools \cup {"read_file"},
        status \in {"completed", "cancelled"},
        decision \in {"", "rejected"}}
    \cup {Bubble(TRUE, TokenCount(3, 4),
                 ToolFormer("write", "completed", "", Params(PathB), NoArgs),
                 {"write_file"})}

TableGlobals(n) ==
    {GlobalDB(TRUE, FALSE, TRUE,
              [id \in ComposerIds |->
                  IF id = "c1" THEN [queryErr |-> FALSE, rows |-> rows]
                  ELSE [queryErr |-> failed,
                        rows |-> <<EditBubble("create_file", "completed", "accepted", PathC)>>]],
              [id \in ComposerIds |-> NoComposerData]) :
        rows \in UNION {[1..k -> TableRows] : k \in 0..n}, failed \in BOOLEAN}

NextWriteTools ==
    ParseCursorBubbles([globals |-> TableGlobals(MaxBubbles),
                        composerIds |-> <<"c1", "c2">>])

SpecWriteTools == InitCopilot /\ [][NextWriteTools]_vars

\* the completed, non-rejected rows of the tools in names that carry a path,
\* among the rows of the composers whose query succeeded
AcceptedRowsOf(names) ==
    {r \in ToSetOfSeq(QueriedRows) :
        /\ r.parses
        /\ r.ToolFormerData # NoToolFormer
        /\ r.ToolFormerData.Name \in names
        /\ Accepted(r)
        /\ extractCursorFilePath(r.ToolFormerData) # <<>>}

\* C29: every completed, non-rejected row of a tool of cursorWriteTools that
\* carries a path is returned by the query, and its path is collected
C29_QueryReturnsEveryWriteTool ==
    probe.reader = "parseCursorBubbles" =>
        \A r \in AcceptedRowsOf(cursorWriteTools) :
            /\ ReturnedRow(r)
            /\ extractCursorFilePath(r.ToolFormerData) \in CollectedFiles

\* C29, what the code guarantees: the same for the four names the query
\* looks for; a row of "write" counts only when its text quotes one of them
C29_QueryReturnsQueriedNames ==
    probe.reader = "parseCursorBubbles" =>
        /\ \A r \in AcceptedRowsOf(cursorQueryNames) :
              /\ ReturnedRow(r)
              /\ extractCursorFilePath(r.ToolFormerData) \in CollectedFiles
        /\ CollectedFiles =
              {extractCursorFilePath(r.ToolFormerData) :
                  r \in {q \in AcceptedRowsOf(cursorWriteTools) : ReturnedRow(q)}}

\* one completed row of "write" for b.go: the query does not return it and
\* the reader finds no session
C29_WriteRowMissed ==
    /\ probe.reader = "parseCursorBubbles"
    /\ probe.in.bubbles["c2"].queryErr
    /\ probe.in.bubbles["c1"].rows =
          <<Bubble(TRUE, TokenCount(3, 4),
                   ToolFormer("write", "completed", "", Params(PathB), NoArgs), {})>>
    /\ probe.out.session = NoSession


-----------------------------------------------------------------------------
(* C30: no pending record is lost before it is synced                      *)

\* the SavePending calls that returned nil
Saved == {w \in DOMAIN savers : savers[w].pc = "done" /\ ~savers[w].err}

\* the names PendingCount would count now
CountedNow ==
    IF pending.exists THEN CountedNames(ReadDirPending(pending)) ELSE {}

\* C30: as long as no Sync has started, every SavePending call that
\* succeeded has its own record file in the directory, and PendingCount
\* counts as many record files as calls succeeded
C30_EverySavedRecordIsPending ==
    ~SyncStarted =>
        /\ \A w \in Saved :
              \E n \in CountedNow : DataOf(pending, n) = Data(w, TRUE)
        /\ Cardinality({n \in CountedNow : n.stem >= 0}) = Cardinality(Saved)
        /\ (pendingCount.done /\ pendingCount.names = CountedNow) =>
              Cardinality({n \in pendingCount.names : n.stem >= 0})
                  = Cardinality(Saved)

\* C30, what the code keeps: the claim, as long as no two records get the
\* same file name
C30_HoldsForDistinctNames == DistinctNames => C30_EverySavedRecordIsPending

\* C30, the case that breaks it: two calls in one millisecond, both
\* successful, no Sync; PendingCount returns 1
C30_TwoSavedOneCounted ==
    /\ ~SyncStarted
    /\ Saved = DOMAIN savers
    /\ savers[1].ms = savers[2].ms
    /\ pendingCount.done
    /\ pendingCount.names = CountedNow
    /\ pendingCount.count = 1

====
